---- MODULE Spec2Model ----
(***************************************************************************)
(* Logseq DB Raycast extension: the launcher client (LogseqAPIService, the  *)
(* capture forms, useGraphs, the Search command) and the HTTP gateway it    *)
(* talks to.  Text is modelled as a tuple of one-character strings, so that *)
(* trim, split, includes, join and replace are computed, not assumed.       *)
(***************************************************************************)
EXTENDS Integers, Sequences, FiniteSets, Bags, TLC

(***************************************************************************)
(* JavaScript values                                                        *)
(***************************************************************************)
\* `undefined` for a text value: a tuple no text can equal.
UNDEFINED == <<"<undefined>">>

\* `undefined` for a list of texts.
UNDEFINED_LIST == << <<"<undefined>">> >>

\* `null` for a text value (useState<string | null>).
NULL == <<"<null>">>

\* JavaScript truthiness of an optional text: undefined, null and "" are falsy.
Truthy(s) == s # UNDEFINED /\ s # NULL /\ s # <<>>

\* The characters String.prototype.trim removes (those the model's texts use).
WhiteSpace == {" ", "\t", "\r", "\n"}

Min(a, b) == IF a < b THEN a ELSE b

RECURSIVE TrimStart(_)
TrimStart(s) ==
  IF s # <<>> /\ Head(s) \in WhiteSpace THEN TrimStart(Tail(s)) ELSE s

RECURSIVE TrimEnd(_)
TrimEnd(s) ==
  IF s # <<>> /\ s[Len(s)] \in WhiteSpace
    THEN TrimEnd(SubSeq(s, 1, Len(s) - 1))
    ELSE s

\* String.prototype.trim
Trim(s) == TrimEnd(TrimStart(s))

\* Whether `needle` occurs in `hay` at 1-based position i.
MatchAt(hay, needle, i) ==
  /\ i >= 1
  /\ i + Len(needle) - 1 <= Len(hay)
  /\ \A k \in 1..Len(needle) : hay[i + k - 1] = needle[k]

\* String.prototype.includes
Includes(hay, needle) ==
  \E i \in 1..(Len(hay) + 1) : MatchAt(hay, needle, i)

\* String.prototype.indexOf, 1-based; 0 when there is no occurrence.
IndexOf(hay, needle) ==
  IF Includes(hay, needle)
    THEN CHOOSE i \in 1..(Len(hay) + 1) :
           /\ MatchAt(hay, needle, i)
           /\ \A j \in 1..(i - 1) : ~MatchAt(hay, needle, j)
    ELSE 0

\* String.prototype.split(sep) for a one-character separator.
RECURSIVE Split(_, _)
Split(s, sep) ==
  LET i == IndexOf(s, <<sep>>)
  IN  IF i = 0
        THEN <<s>>
        ELSE <<SubSeq(s, 1, i - 1)>> \o Split(SubSeq(s, i + 1, Len(s)), sep)

\* Array.prototype.join
RECURSIVE Join(_, _)
Join(parts, sep) ==
  IF parts = <<>> THEN <<>>
  ELSE IF Len(parts) = 1 THEN parts[1]
  ELSE parts[1] \o sep \o Join(Tail(parts), sep)


(***************************************************************************)
(* LogseqAPIService.formatCaptureContent                                    *)
(***************************************************************************)
\* The placeholder of a capture template.
Placeholder == <<"{", "c", "o", "n", "t", "e", "n", "t", "}">>

\* The replacement text of String.prototype.replace(string, string), expanded
\* as GetSubstitution does for a pattern without capture groups: $$ is a
\* dollar, $& the match, $` the text before it, $' the text after it; any
\* other $ stays as written.
RECURSIVE GetSubstitution(_, _, _, _)
GetSubstitution(repl, matched, before, after) ==
  IF repl = <<>> THEN <<>>
  ELSE IF Head(repl) = "$" /\ Len(repl) >= 2
    THEN LET rest == SubSeq(repl, 3, Len(repl))
         IN  CASE repl[2] = "$" -> <<"$">> \o GetSubstitution(rest, matched, before, after)
               [] repl[2] = "&" -> matched \o GetSubstitution(rest, matched, before, after)
               [] repl[2] = "`" -> before \o GetSubstitution(rest, matched, before, after)
               [] repl[2] = "'" -> after \o GetSubstitution(rest, matched, before, after)
               [] OTHER -> <<"$">> \o GetSubstitution(Tail(repl), matched, before, after)
    ELSE <<Head(repl)>> \o GetSubstitution(Tail(repl), matched, before, after)

\* String.prototype.replace(pattern, replacement) with a string pattern:
\* the first occurrence only.
StringReplace(s, pattern, repl) ==
  LET i == IndexOf(s, pattern)
  IN  IF i = 0
        THEN s
        ELSE LET before == SubSeq(s, 1, i - 1)
                 after  == SubSeq(s, i + Len(pattern), Len(s))
             IN  before \o GetSubstitution(repl, pattern, before, after) \o after

\* t.replace(/^#/, ""): one leading '#' is removed.
StripLeadingHash(t) ==
  IF t # <<>> /\ Head(t) = "#" THEN Tail(t) ELSE t

\* `#${t.replace(/^#/, "")}`
TagMarkup(t) == <<"#">> \o StripLeadingHash(t)

\* options.tags.map(...).join(" ")
TagString(tags) == Join([i \in 1..Len(tags) |-> TagMarkup(tags[i])], <<" ">>)

\* Step 1 of formatCaptureContent: the tags.
WithTags(formatted, tags) ==
  IF tags # UNDEFINED_LIST /\ Len(tags) > 0
    THEN formatted \o <<" ">> \o TagString(tags)
    ELSE formatted

\* Step 2 of formatCaptureContent: the priority marker.
WithPriority(formatted, priority) ==
  IF Truthy(priority)
    THEN <<"[", "#">> \o priority \o <<"]", " ">> \o formatted
    ELSE formatted

\* Step 3 of formatCaptureContent: the template.
WithTemplate(formatted, template) ==
  IF Truthy(template) /\ template # Placeholder
    THEN StringReplace(template, Placeholder, formatted)
    ELSE formatted

formatCaptureContent(content, tags, priority, template) ==
  WithTemplate(WithPriority(WithTags(content, tags), priority), template)

(***************************************************************************)
(* QuickCapture.handleSubmit: the tags field                                *)
(***************************************************************************)
\* The separators of /[,\s]+/.
TagSeparators == WhiteSpace \cup {","}

\* String.prototype.split(/[,\s]+/): the pieces between maximal runs of
\* separators, the empty pieces at either end included.
RECURSIVE DropSeparators(_)
DropSeparators(s) ==
  IF s # <<>> /\ Head(s) \in TagSeparators THEN DropSeparators(Tail(s)) ELSE s

RECURSIVE SplitTagsFrom(_, _)
SplitTagsFrom(s, piece) ==
  IF s = <<>> THEN <<piece>>
  ELSE IF Head(s) \in TagSeparators
    THEN <<piece>> \o SplitTagsFrom(DropSeparators(s), <<>>)
    ELSE SplitTagsFrom(Tail(s), Append(piece, Head(s)))

SplitTags(s) == SplitTagsFrom(s, <<>>)

\* .filter((t) => t.length > 0)
RECURSIVE NonEmptyOnly(_)
NonEmptyOnly(xs) ==
  IF xs = <<>> THEN <<>>
  ELSE (IF Len(Head(xs)) > 0 THEN <<Head(xs)>> ELSE <<>>) \o NonEmptyOnly(Tail(xs))

\* values.tags?.split(/[,\s]+/).map((t) => t.trim()).filter((t) => t.length > 0)
ParseTags(tagsField) ==
  IF tagsField = UNDEFINED
    THEN UNDEFINED_LIST
    ELSE LET parts == SplitTags(tagsField)
         IN NonEmptyOnly([i \in 1..Len(parts) |-> Trim(parts[i])])

(***************************************************************************)
(* Bounds and input samples                                                 *)
(***************************************************************************)
\* Requests that can be in flight (issued and not yet settled) at once.
MaxRequests == 2

\* Searches of the Search command in flight at once.
MaxSearches == 1

\* handleGraphChange calls awaiting setSelectedGraph at once.
MaxPendingChanges == 1

\* Tags in one call of formatCaptureContent.
MaxTags == 2

\* Lines of one output of the list subcommand.
MaxListLines == 3

\* "No token": an undefined preference, a body without a token field, a
\* gateway started without --api-token.
ABSENT == "<absent>"

\* The tokens the preference takes in the runs of the capture commands.
RunTokens == {"", "tokA"}

\* What the gateway can be started with.
ServerTokens == {ABSENT, "tokS"}

\* `token || this.apiToken`, `if (apiToken)`: undefined and "" are falsy.
TokenTruthy(t) == t # ABSENT /\ t # ""

\* Local dates datetime.now() can return: <<year, month, day>>.
Dates == {<<2026, 2, 2>>, <<2027, 10, 9>>}

\* What the user types into a capture form's content field.
CaptureContents == {<<" ", "\t">>, <<" ", "b", " ">>}

\* The form values Quick Capture is submitted with: blank content, content
\* with tags and a priority, content alone.
QuickCaptureValues ==
  {[content |-> <<" ", "\t">>, tags |-> UNDEFINED, priority |-> <<>>],
   [content |-> <<" ", "b", " ">>, tags |-> <<"#", "t", ",", " ", "u">>, priority |-> <<"A">>],
   [content |-> <<"b">>, tags |-> <<>>, priority |-> <<>>]}

\* The captureTemplate preference.
CaptureTemplates == {Placeholder, <<"-", " ", "{", "c", "o", "n", "t", "e", "n", "t", "}">>}

(***************************************************************************)
(* Texts of the client and of the gateway                                   *)
(***************************************************************************)
\* `preferences.serverUrl || "http://localhost:8765"`
DefaultServerUrl == "http://localhost:8765"

MsgFailedToFetchGraphs == <<"F", "a", "i", "l", "e", "d", " ", "t", "o", " ", "f", "e", "t", "c", "h", " ", "g", "r", "a", "p", "h", "s">>
MsgSearchFailed == <<"S", "e", "a", "r", "c", "h", " ", "f", "a", "i", "l", "e", "d">>
MsgQueryFailed == <<"Q", "u", "e", "r", "y", " ", "f", "a", "i", "l", "e", "d">>
MsgFailedToAppendContent == <<"F", "a", "i", "l", "e", "d", " ", "t", "o", " ", "a", "p", "p", "e", "n", "d", " ", "c", "o", "n", "t", "e", "n", "t">>
MsgFailedToAppendToJournal == <<"F", "a", "i", "l", "e", "d", " ", "t", "o", " ", "a", "p", "p", "e", "n", "d", " ", "t", "o", " ", "j", "o", "u", "r", "n", "a", "l">>
MsgContentCannotBeEmpty == <<"C", "o", "n", "t", "e", "n", "t", " ", "c", "a", "n", "n", "o", "t", " ", "b", "e", " ", "e", "m", "p", "t", "y">>
MsgCapturedJournal == <<"C", "o", "n", "t", "e", "n", "t", " ", "a", "d", "d", "e", "d", " ", "t", "o", " ", "t", "o", "d", "a", "y", "'", "s", " ", "j", "o", "u", "r", "n", "a", "l">>
MsgEmptyContent == <<"P", "l", "e", "a", "s", "e", " ", "e", "n", "t", "e", "r", " ", "s", "o", "m", "e", " ", "c", "o", "n", "t", "e", "n", "t", " ", "t", "o", " ", "c", "a", "p", "t", "u", "r", "e">>
MsgTokenRequired == <<"P", "r", "e", "s", "s", " ", "C", "m", "d", "+", "S", "h", "i", "f", "t", "+", ",", " ", "t", "o", " ", "o", "p", "e", "n", " ", "s", "e", "t", "t", "i", "n", "g", "s", " ", "a", "n", "d", " ", "a", "d", "d", " ", "y", "o", "u", "r", " ", "L", "o", "g", "s", "e", "q", " ", "A", "P", "I", " ", "t", "o", "k", "e", "n">>
MsgCannotConnectCapture == <<"C", "a", "n", "n", "o", "t", " ", "c", "o", "n", "n", "e", "c", "t", " ", "t", "o", " ", "L", "o", "g", "s", "e", "q", " ", "H", "T", "T", "P", " ", "s", "e", "r", "v", "e", "r", ".", " ", "M", "a", "k", "e", " ", "s", "u", "r", "e", ":", "\n", "1", ".", " ", "T", "h", "e", " ", "H", "T", "T", "P", " ", "s", "e", "r", "v", "e", "r", " ", "i", "s", " ", "r", "u", "n", "n", "i", "n", "g", " ", "(", "p", "y", "t", "h", "o", "n", "3", " ", "l", "o", "g", "s", "e", "q", "_", "s", "e", "r", "v", "e", "r", ".", "p", "y", ")", "\n", "2", ".", " ", "L", "o", "g", "s", "e", "q", " ", "d", "e", "s", "k", "t", "o", "p", " ", "a", "p", "p", " ", "i", "s", " ", "o", "p", "e", "n", "\n", "3", ".", " ", "H", "T", "T", "P", " ", "A", "P", "I", " ", "S", "e", "r", "v", "e", "r", " ", "i", "s", " ", "e", "n", "a", "b", "l", "e", "d", " ", "i", "n", " ", "L", "o", "g", "s", "e", "q", " ", "s", "e", "t", "t", "i", "n", "g", "s">>
MsgCannotConnectGraphs == <<"C", "a", "n", "n", "o", "t", " ", "c", "o", "n", "n", "e", "c", "t", " ", "t", "o", " ", "L", "o", "g", "s", "e", "q", " ", "H", "T", "T", "P", " ", "s", "e", "r", "v", "e", "r", ".", " ", "M", "a", "k", "e", " ", "s", "u", "r", "e", " ", "i", "t", "'", "s", " ", "r", "u", "n", "n", "i", "n", "g", ".">>
MsgFailedToLoadGraphsPrefix == <<"F", "a", "i", "l", "e", "d", " ", "t", "o", " ", "l", "o", "a", "d", " ", "g", "r", "a", "p", "h", "s", ":", " ">>
MsgNoResultsFound == <<"N", "o", " ", "r", "e", "s", "u", "l", "t", "s", " ", "f", "o", "u", "n", "d">>
NeedleFailedToFetch == <<"F", "a", "i", "l", "e", "d", " ", "t", "o", " ", "f", "e", "t", "c", "h">>
NeedleNetworkError == <<"N", "e", "t", "w", "o", "r", "k", "E", "r", "r", "o", "r">>
NeedleApiToken == <<"A", "P", "I", " ", "t", "o", "k", "e", "n">>
MsgServerErrorPrefix == <<"S", "e", "r", "v", "e", "r", " ", "e", "r", "r", "o", "r", ":", " ">>

\* What `<tool> list` prints, in the runs of the Search command.
ListStdouts == {<<"g", "1", "\n", " ", "g", "2", " ", "\n">>, <<"D", "B", " ", "G", "r", "a", "p", "h", "s", ":", "\n">>}

\* How many records `<tool> search` finds.
SearchSizes == {0, 3, 101}

\* What the user types in the search bar.
SearchTexts == {<<>>, <<" ">>, <<"f">>}

\* The maxResults preference, in the runs of the Search command.
SearchMaxResultsPrefs == {<<"2">>, <<"a", "b", "c">>, <<"1", "5", "0">>}

\* LocalStorage["selected-graph"] when the command opens.
SavedGraphs == {UNDEFINED, <<"g", "2">>}

\* What a caller of logseqAPI.search passes.
ApiQueries == {<<>>, <<"f">>}
ApiGraphs == {<<>>, <<"g", "1">>}
ApiLimits == {<<>>, <<0>>, <<2>>, <<5>>}

\* What a caller of the hook's setSelectedGraph passes.
HookGraphs == {<<>>, <<"g", "1">>, <<"g", "2">>}

(***************************************************************************)
(* State                                                                    *)
(***************************************************************************)
VARIABLES
  command,         \* the command this run is of
  prefApiToken,    \* the apiToken preference, as getPreferenceValues() reads it now
  apiToken,        \* LogseqAPIService.apiToken, cached by the constructor
  serverUrl,       \* LogseqAPIService.serverUrl, set by the constructor
  captureTemplate, \* the captureTemplate preference
  maxResultsPref,  \* the maxResults preference (a text)
  isSubmitting,    \* the capture form's useState(false)
  contentError,    \* QuickCapture: useState<string | undefined>()
  toast,           \* the toast or HUD on screen
  popped,          \* popToRoot() was called: the command is closed
  cfgToken,        \* the gateway's configured token (flag or environment)
  reqs,            \* the HTTP requests in flight (a bag), each with its progress
  graphs, selectedGraph, isLoading, error, isInitialized, initialGraph, \* useGraphs
  storage,         \* LocalStorage["selected-graph"]
  searchText, results, isSearching, searchError, \* SearchLogseq
  effect,          \* SearchLogseq: the search effect now mounted
  pendingChanges,  \* SearchLogseq: the handleGraphChange calls awaiting setSelectedGraph
  pureIn, pureOut  \* the last application of a pure function, and its result

prefVars == <<command, prefApiToken, apiToken, serverUrl, captureTemplate, maxResultsPref>>
formVars == <<isSubmitting, contentError, toast, popped>>
gatewayVars == <<cfgToken, reqs>>
graphVars == <<graphs, selectedGraph, isLoading, error, isInitialized, initialGraph, storage>>
searchVars == <<searchText, results, isSearching, searchError, effect, pendingChanges>>
pureVars == <<pureIn, pureOut>>
vars == <<prefVars, formVars, gatewayVars, graphVars, searchVars, pureVars>>

(***************************************************************************)
(* HTTP requests                                                            *)
(***************************************************************************)
\* No backend call was made for the request.
NoCall == [kind |-> "none"]

\* A request as the client issues it.  `token` is ABSENT when the body has no
\* token field; `q` and `graph` are UNDEFINED when the URL has no such
\* parameter; `ctl` is the state of the AbortController that guards it, and
\* `limit` the maxResults its caller passed: <<n>>, or <<>> for none.
NewRequest(method, path, content, token, q, graph, ctl) ==
  [method |-> method, path |-> path,
   content |-> content, token |-> token, q |-> q, graph |-> graph, ctl |-> ctl,
   limit |-> <<>>,
   stage |-> "sent", spawns |-> 0, nativeCalls |-> 0, call |-> NoCall,
   status |-> 0, kind |-> "none", success |-> FALSE,
   error |-> UNDEFINED, stderr |-> UNDEFINED, stdout |-> UNDEFINED,
   data |-> <<>>, fetchError |-> UNDEFINED]

\* The requests in flight, as a set.
InFlight == BagToSet(reqs)

CanIssue == BagCardinality(reqs) < MaxRequests

Issue(r) == reqs' = reqs (+) SetToBag({r})

\* The requests waiting at a given stage.
AtStage(stage) == {r \in InFlight : r.stage = stage}

\* A response or a rejection the client has not consumed yet.
Arrived == AtStage("responded") \cup AtStage("rejected")

\* Request r moves on and becomes `next`.
Progress(r, next) == reqs' = (reqs (-) SetToBag({r})) (+) SetToBag({next})

\* The promise of request r has settled: nothing of it remains.
Settle(r) == reqs' = reqs (-) SetToBag({r})

(***************************************************************************)
(* Gateway Router                                                           *)
(***************************************************************************)
\* The status the gateway answers a write without any token with.
GwMissingTokenStatus == 401

GwMsgMissingToken == <<"M", "i", "s", "s", "i", "n", "g", " ", "A", "P", "I", " ", "t", "o", "k", "e", "n">>
GwMsgAppendFailed == <<"a", "p", "p", "e", "n", "d", " ", "c", "o", "m", "m", "a", "n", "d", " ", "f", "a", "i", "l", "e", "d">>
GwMsgSearchFailed == <<"S", "e", "a", "r", "c", "h", " ", "f", "a", "i", "l", "e", "d">>
GwMsgMissingParameter == <<"M", "i", "s", "s", "i", "n", "g", " ", "r", "e", "q", "u", "i", "r", "e", "d", " ", "p", "a", "r", "a", "m", "e", "t", "e", "r">>
GwMsgUnreachable == <<"C", "a", "n", "n", "o", "t", " ", "c", "o", "n", "n", "e", "c", "t", " ", "t", "o", " ", "L", "o", "g", "s", "e", "q", " ", "A", "P", "I", ":", " ", "c", "o", "n", "n", "e", "c", "t", "i", "o", "n", " ", "r", "e", "f", "u", "s", "e", "d">>
GwMsgUnauthorized == <<"L", "o", "g", "s", "e", "q", " ", "A", "P", "I", " ", "r", "e", "j", "e", "c", "t", "e", "d", " ", "t", "h", "e", " ", "t", "o", "k", "e", "n">>
GwMsgRemote == <<"L", "o", "g", "s", "e", "q", " ", "A", "P", "I", " ", "e", "r", "r", "o", "r">>
GwMsgProcess == <<"l", "o", "g", "s", "e", "q", " ", "c", "o", "m", "m", "a", "n", "d", " ", "c", "o", "u", "l", "d", " ", "n", "o", "t", " ", "b", "e", " ", "r", "u", "n">>
ToolStderr == <<"E", "r", "r", "o", "r", ":", " ", "b", "o", "o", "m">>

\* The token a write handler uses: the body's, else the configured one.
GwResolveToken(bodyToken, configured) ==
  IF bodyToken # ABSENT THEN bodyToken ELSE configured

\* A required parameter is present and non-empty.
GwPresent(param) == param # UNDEFINED /\ param # <<>>

\* The handler's answer.
GwAnswer(r, status, kind, success, errorText) ==
  [r EXCEPT !.stage = "responded", !.status = status, !.kind = kind,
            !.success = success, !.error = errorText, !.call = NoCall]

\* The handler hands the request to a backend.
GwCall(r, call) ==
  [r EXCEPT !.stage = "backend", !.call = call,
            !.spawns = IF call.kind = "tool" THEN @ + 1 ELSE @,
            !.nativeCalls = IF call.kind = "native" THEN @ + 1 ELSE @]

\* What the Command Runner can report.
ToolOutcomes == {"exit0", "nonzero", "processError"}

\* What the Native API Client can report.
NativeOutcomes == {"ok", "auth", "unreachable", "remote"}

(***************************************************************************)
(* Write-Target Resolver: the journal key                                   *)
(***************************************************************************)
DigitChar(d) == <<"0", "1", "2", "3", "4", "5", "6", "7", "8", "9">>[d + 1]

\* The decimal digits of a natural number.
RECURSIVE Decimal(_)
Decimal(n) ==
  IF n < 10 THEN <<DigitChar(n)>> ELSE Decimal(n \div 10) \o <<DigitChar(n % 10)>>

\* strftime's %m and %d: two digits, zero-padded.
TwoDigits(n) == IF n < 10 THEN <<"0">> \o Decimal(n) ELSE Decimal(n)

\* strftime('%Y-%-m-%-d'): no padding.
JournalKey_unpadded(today) ==
  Decimal(today[1]) \o <<"-">> \o Decimal(today[2]) \o <<"-">> \o Decimal(today[3])

\* datetime.now().strftime('%Y-%m-%d')
JournalKey(today) ==
  Decimal(today[1]) \o <<"-">> \o TwoDigits(today[2]) \o <<"-">> \o TwoDigits(today[3])

\* The payload _append_to_journal posts to the desktop application.
NativePayload(today, content) ==
  [method |-> "logseq.Editor.appendBlockInPage",
   args |-> <<JournalKey(today), content>>]

\* The request _append_to_journal makes: the payload and its bearer token.
NativeCall(today, content, token) ==
  [kind |-> "native", url |-> "http://127.0.0.1:12315/api", today |-> today,
   payload |-> NativePayload(today, content), bearer |-> token]

(***************************************************************************)
(* Gateway Router: the write endpoints                                      *)
(***************************************************************************)
\* A write handler that does not look for a token before it calls.
GwWriteDecision_unchecked(r, configured) ==
  IF ~GwPresent(r.content) THEN "invalid" ELSE "call"

\* What a write handler does with a request before any backend is involved:
\* "invalid", "unauthenticated" or "call".
GwWriteDecision(r, configured) ==
  IF ~GwPresent(r.content) THEN "invalid"
  ELSE IF GwResolveToken(r.token, configured) = ABSENT THEN "unauthenticated"
  ELSE "call"

\* The answer of a write handler that makes no backend call.
GwWriteRefusal(r, decision) ==
  IF decision = "invalid"
    THEN GwAnswer(r, 400, "ValidationError", FALSE, GwMsgMissingParameter)
    ELSE GwAnswer(r, GwMissingTokenStatus, "AuthError", FALSE, GwMsgMissingToken)

\* POST /append-to-journal: validation, token resolution, then one call of
\* the desktop application's API.
GwAppendToJournal(r) ==
  /\ r \in AtStage("sent")
  /\ r.path = "/append-to-journal"
  /\ LET decision == GwWriteDecision(r, cfgToken)
     IN  IF decision # "call"
           THEN Progress(r, GwWriteRefusal(r, decision))
           ELSE \E today \in Dates :
                  Progress(r, GwCall(r, NativeCall(today, r.content, GwResolveToken(r.token, cfgToken))))
  /\ UNCHANGED <<cfgToken, prefVars, formVars, graphVars, searchVars, pureVars>>

\* A handler that calls the desktop application again when it cannot be
\* reached.
NativeAnswer_retrying(r, outcome) ==
  CASE outcome = "ok" -> GwAnswer(r, 200, "ok", TRUE, UNDEFINED)
    [] outcome = "auth" -> GwAnswer(r, 200, "AuthError", FALSE, GwMsgUnauthorized)
    [] outcome = "unreachable" -> GwCall(r, r.call)
    [] outcome = "remote" -> GwAnswer(r, 200, "RemoteError", FALSE, GwMsgRemote)

\* The answer to a Native API Client result.
NativeAnswer(r, outcome) ==
  CASE outcome = "ok" -> GwAnswer(r, 200, "ok", TRUE, UNDEFINED)
    [] outcome = "auth" -> GwAnswer(r, 200, "AuthError", FALSE, GwMsgUnauthorized)
    [] outcome = "unreachable" -> GwAnswer(r, 200, "UnreachableError", FALSE, GwMsgUnreachable)
    [] outcome = "remote" -> GwAnswer(r, 200, "RemoteError", FALSE, GwMsgRemote)

GwAppendToJournalReturn(r) ==
  /\ r \in AtStage("backend")
  /\ r.path = "/append-to-journal"
  /\ \E outcome \in NativeOutcomes :
       Progress(r, NativeAnswer(r, outcome))
  /\ UNCHANGED <<cfgToken, prefVars, formVars, graphVars, searchVars, pureVars>>

\* <tool> append "<content>" -a <token>
ToolAppend(content, token) ==
  [kind |-> "tool", cmd |-> "append", content |-> content, token |-> token]

\* POST /append: validation, token resolution, then one run of the tool.
GwAppend(r) ==
  /\ r \in AtStage("sent")
  /\ r.path = "/append"
  /\ LET decision == GwWriteDecision(r, cfgToken)
     IN  IF decision # "call"
           THEN Progress(r, GwWriteRefusal(r, decision))
           ELSE Progress(r, GwCall(r, ToolAppend(r.content, GwResolveToken(r.token, cfgToken))))
  /\ UNCHANGED <<cfgToken, prefVars, formVars, graphVars, searchVars, pureVars>>

\* The answer to a Command Runner result of the append subcommand.
ToolAppendAnswer(r, outcome) ==
  CASE outcome = "exit0" -> GwAnswer(r, 200, "ok", TRUE, UNDEFINED)
    [] outcome = "nonzero" ->
         [GwAnswer(r, 200, "ToolFailed", FALSE, GwMsgAppendFailed) EXCEPT !.stderr = ToolStderr]
    [] outcome = "processError" -> GwAnswer(r, 200, "ProcessError", FALSE, GwMsgProcess)

GwAppendReturn(r) ==
  /\ r \in AtStage("backend")
  /\ r.path = "/append"
  /\ \E outcome \in ToolOutcomes :
       Progress(r, ToolAppendAnswer(r, outcome))
  /\ UNCHANGED <<cfgToken, prefVars, formVars, graphVars, searchVars, pureVars>>

(***************************************************************************)
(* LogseqAPIService: get, post and the write methods                        *)
(***************************************************************************)
\* What fetch() rejects with when the gateway cannot be reached.
FetchErrorMessages == {<<"f", "e", "t", "c", "h", " ", "f", "a", "i", "l", "e", "d">>, <<"F", "a", "i", "l", "e", "d", " ", "t", "o", " ", "f", "e", "t", "c", "h">>}

\* The gateway is not running: fetch() rejects.
FetchRejects(r) ==
  /\ r \in AtStage("sent")
  /\ \E msg \in FetchErrorMessages :
       Progress(r, [r EXCEPT !.stage = "rejected", !.fetchError = msg])
  /\ UNCHANGED <<cfgToken, prefVars, formVars, graphVars, searchVars, pureVars>>

\* response.statusText
StatusText(status) ==
  CASE status = 200 -> <<"O", "K">>
    [] status = 400 -> <<"B", "a", "d", " ", "R", "e", "q", "u", "e", "s", "t">>
    [] status = 401 -> <<"U", "n", "a", "u", "t", "h", "o", "r", "i", "z", "e", "d">>
    [] status = 404 -> <<"N", "o", "t", " ", "F", "o", "u", "n", "d">>
    [] OTHER -> <<>>

\* response.ok
ResponseOk(r) == r.status >= 200 /\ r.status <= 299

\* `Server error: ${response.status} ${response.statusText}`
ServerErrorMessage(r) ==
  MsgServerErrorPrefix \o Decimal(r.status) \o <<" ">> \o StatusText(r.status)

\* get/post: the envelope, or the error thrown.
Transport(r) ==
  IF r.stage = "rejected" THEN [threw |-> TRUE, message |-> r.fetchError]
  ELSE IF ~ResponseOk(r) THEN [threw |-> TRUE, message |-> ServerErrorMessage(r)]
  ELSE [threw |-> FALSE, message |-> UNDEFINED]

\* `response.error` without a fallback.
ErrorOr_noFallback(r, fallback) == r.error

\* `response.error || fallback`
ErrorOr(r, fallback) == IF Truthy(r.error) THEN r.error ELSE fallback

\* `response.error || response.stderr || fallback`
ErrorOrStderrOr(r, fallback) ==
  IF Truthy(r.error) THEN r.error
  ELSE IF Truthy(r.stderr) THEN r.stderr
  ELSE fallback

\* append and appendToJournal once the response is in: resolved, or the error
\* thrown.
WriteOutcome(r, fallback) ==
  IF Transport(r).threw THEN Transport(r)
  ELSE IF ~r.success THEN [threw |-> TRUE, message |-> ErrorOr(r, fallback)]
  ELSE [threw |-> FALSE, message |-> UNDEFINED]

\* `this.apiToken || token`: the cached token first.
ResolveToken_cachedFirst(token, cached) == IF TokenTruthy(cached) THEN cached ELSE token

\* `const apiToken = token || this.apiToken`
ResolveToken(token, cached) == IF TokenTruthy(token) THEN token ELSE cached

\* `const body = { content }; if (apiToken) body.token = apiToken`
BodyToken(resolved) == IF TokenTruthy(resolved) THEN resolved ELSE ABSENT

\* The path appendToJournal posts to.
AppendToJournalPath == "/append-to-journal"

\* The path append posts to.
AppendPath == "/append"

\* appendToJournal as it was before it had an endpoint of its own: a POST to
\* /append.
appendToJournal_viaAppend(content, token) ==
  NewRequest("POST", "/append", content,
             BodyToken(ResolveToken(token, apiToken)), UNDEFINED, UNDEFINED, "none")

\* The request appendToJournal(content, token) posts.
appendToJournal(content, token) ==
  NewRequest("POST", AppendToJournalPath, content,
             BodyToken(ResolveToken(token, apiToken)), UNDEFINED, UNDEFINED, "none")

\* The request append(content, token) posts.
append(content, token) ==
  NewRequest("POST", AppendPath, content,
             BodyToken(ResolveToken(token, apiToken)), UNDEFINED, UNDEFINED, "none")

(***************************************************************************)
(* Gateway Router: the read endpoints                                       *)
(***************************************************************************)
\* <tool> list
ToolList == [kind |-> "tool", cmd |-> "list"]

\* <tool> search "<q>" -g <graph>
ToolSearch(q, graph) == [kind |-> "tool", cmd |-> "search", q |-> q, graph |-> graph]

\* GET /list: one run of the tool, whatever the token.
GwList(r) ==
  /\ r \in AtStage("sent")
  /\ r.path = "/list"
  /\ Progress(r, GwCall(r, ToolList))
  /\ UNCHANGED <<cfgToken, prefVars, formVars, graphVars, searchVars, pureVars>>

\* The answer to a Command Runner result of the list subcommand.
ToolListAnswer(r, outcome, stdout) ==
  CASE outcome = "exit0" -> [GwAnswer(r, 200, "ok", TRUE, UNDEFINED) EXCEPT !.stdout = stdout]
    [] outcome = "nonzero" ->
         [GwAnswer(r, 200, "ToolFailed", FALSE, MsgFailedToFetchGraphs) EXCEPT !.stderr = ToolStderr]
    [] outcome = "processError" -> GwAnswer(r, 200, "ProcessError", FALSE, GwMsgProcess)

\* The Command Runner returns to the /list handler.
GwListReturn(r) ==
  /\ r \in AtStage("backend")
  /\ r.path = "/list"
  /\ \E outcome \in ToolOutcomes :
       \E stdout \in (IF outcome = "exit0" THEN ListStdouts ELSE {<<>>}) :
         Progress(r, ToolListAnswer(r, outcome, stdout))
  /\ UNCHANGED <<cfgToken, prefVars, formVars, graphVars, searchVars, pureVars>>

\* The records a search of the tool finds: n records, told apart by their id.
SearchRecords(n) == [k \in 1..n |-> k]

\* GET /search: validation of q and graph, then one run of the tool.
GwSearch(r) ==
  /\ r \in AtStage("sent")
  /\ r.path = "/search"
  /\ IF GwPresent(r.q) /\ GwPresent(r.graph)
       THEN Progress(r, GwCall(r, ToolSearch(r.q, r.graph)))
       ELSE Progress(r, GwAnswer(r, 400, "ValidationError", FALSE, GwMsgMissingParameter))
  /\ UNCHANGED <<cfgToken, prefVars, formVars, graphVars, searchVars, pureVars>>

\* The answer to a Command Runner result of the search subcommand: every
\* record the tool printed.
ToolSearchAnswer(r, outcome, records) ==
  CASE outcome = "exit0" -> [GwAnswer(r, 200, "ok", TRUE, UNDEFINED) EXCEPT !.data = records]
    [] outcome = "nonzero" ->
         [GwAnswer(r, 200, "ToolFailed", FALSE, GwMsgSearchFailed) EXCEPT !.stderr = ToolStderr]
    [] outcome = "processError" -> GwAnswer(r, 200, "ProcessError", FALSE, GwMsgProcess)

\* The Command Runner returns to the /search handler.
GwSearchReturn(r) ==
  /\ r \in AtStage("backend")
  /\ r.path = "/search"
  /\ \E outcome \in ToolOutcomes, n \in SearchSizes :
       /\ outcome # "exit0" => n = 0
       /\ Progress(r, ToolSearchAnswer(r, outcome, SearchRecords(n)))
  /\ UNCHANGED <<cfgToken, prefVars, formVars, graphVars, searchVars, pureVars>>

(***************************************************************************)
(* LogseqAPIService: the read methods                                       *)
(***************************************************************************)
\* buildUrl: `if (value) url.searchParams.set(key, value)`.
UrlParam(value) == IF Truthy(value) THEN value ELSE UNDEFINED

\* The request listGraphs() gets.
listGraphsRequest ==
  NewRequest("GET", "/list", UNDEFINED, ABSENT, UNDEFINED, UNDEFINED, "none")

\* The request search(query, graph, maxResults) gets.
searchRequest(query, graph, limit, ctl) ==
  [NewRequest("GET", "/search", UNDEFINED, ABSENT, UrlParam(query), UrlParam(graph), ctl)
     EXCEPT !.limit = limit]

HeaderDbGraphs == <<"D", "B", " ", "G", "r", "a", "p", "h", "s">>
HeaderFileGraphs == <<"F", "i", "l", "e", " ", "G", "r", "a", "p", "h", "s">>

\* A filter that knows no section header.
KeepLine_anyHeader(line) ==
  /\ Trim(line) # <<>>
  /\ ~Includes(line, <<":">>)

\* The filter of listGraphs.
KeepLine(line) ==
  /\ Trim(line) # <<>>
  /\ ~Includes(line, <<":">>)
  /\ Trim(line) # HeaderDbGraphs
  /\ Trim(line) # HeaderFileGraphs

\* lines.filter(...).map((line) => line.trim())
RECURSIVE GraphNames(_)
GraphNames(lines) ==
  IF lines = <<>> THEN <<>>
  ELSE (IF KeepLine(Head(lines)) THEN <<Trim(Head(lines))>> ELSE <<>>)
         \o GraphNames(Tail(lines))

\* The graph names listGraphs reads from a response's stdout.
ParseGraphNames(stdout) ==
  GraphNames(Split(IF Truthy(stdout) THEN stdout ELSE <<>>, "\n"))

Threw(message) == [threw |-> TRUE, message |-> message, value |-> <<>>]

Returned(value) == [threw |-> FALSE, message |-> UNDEFINED, value |-> value]

\* listGraphs without its check of `response.success`.
listGraphs_unchecked(r) ==
  IF Transport(r).threw THEN Threw(Transport(r).message)
  ELSE Returned(ParseGraphNames(r.stdout))

\* listGraphs once the response is in: the names, or the error thrown.
listGraphs(r) ==
  IF Transport(r).threw THEN Threw(Transport(r).message)
  ELSE IF ~r.success THEN Threw(ErrorOr(r, MsgFailedToFetchGraphs))
  ELSE Returned(ParseGraphNames(r.stdout))

\* `maxResults ? ... : ...`: a number is given and is not 0.
NumberTruthy(n) == n # <<>> /\ n[1] # 0

\* Array.prototype.slice(0, end)
SliceTo(xs, end) ==
  LET stop == IF end < 0 THEN (IF Len(xs) + end < 0 THEN 0 ELSE Len(xs) + end)
              ELSE Min(end, Len(xs))
  IN  SubSeq(xs, 1, stop)

\* search without its slice.
search_unsliced(r) ==
  IF Transport(r).threw THEN Threw(Transport(r).message)
  ELSE IF ~r.success THEN Threw(ErrorOrStderrOr(r, MsgSearchFailed))
  ELSE Returned(r.data)

\* search once the response is in: the pages, or the error thrown.
search(r) ==
  IF Transport(r).threw THEN Threw(Transport(r).message)
  ELSE IF ~r.success THEN Threw(ErrorOrStderrOr(r, MsgSearchFailed))
  ELSE Returned(IF NumberTruthy(r.limit) THEN SliceTo(r.data, r.limit[1]) ELSE r.data)

\* The request query(datalogQuery, graph) posts: its body has the fields
\* `query` and `graph`.
queryRequest(datalogQuery, graph) ==
  NewRequest("POST", "/query", UNDEFINED, ABSENT, datalogQuery, graph, "none")

\* query() once the response is in: the data, or the error thrown.
Query(r) ==
  IF Transport(r).threw THEN Threw(Transport(r).message)
  ELSE IF ~r.success THEN Threw(ErrorOrStderrOr(r, MsgQueryFailed))
  ELSE Returned(r.data)

(***************************************************************************)
(* The capture forms (quick-capture.tsx)                                    *)
(***************************************************************************)
\* The capture commands: Quick Capture, Quick Note, and the Quick Note
\* variant that passes the preference token itself (lines 157-240).
Forms == {"QuickCapture", "CaptureToJournal", "CaptureToJournalPref"}

NoToast == [style |-> "none", title |-> "", message |-> UNDEFINED, openSettings |-> FALSE]

Toast(style, title, message, openSettings) ==
  [style |-> style, title |-> title, message |-> message, openSettings |-> openSettings]

\* `!values.content.trim()`
Blank(content) == Trim(content) = <<>>

\* QuickCapture.handleSubmit up to `await logseqAPI.appendToJournal(...)`.
QuickCapture_handleSubmit(values) ==
  /\ command = "QuickCapture"
  /\ ~popped
  /\ IF Blank(values.content)
       THEN /\ contentError' = MsgContentCannotBeEmpty
            /\ UNCHANGED <<isSubmitting, reqs>>
       ELSE /\ CanIssue
            /\ contentError' = UNDEFINED
            /\ isSubmitting' = TRUE
            /\ Issue(appendToJournal(
                       formatCaptureContent(values.content, ParseTags(values.tags),
                                            IF Truthy(values.priority)
                                              THEN values.priority ELSE UNDEFINED,
                                            captureTemplate),
                       ABSENT))
  /\ UNCHANGED <<toast, popped, cfgToken, prefVars, graphVars, searchVars, pureVars>>

\* The message of QuickCapture's failure toast.
QuickCaptureUserMessage(errorMessage) ==
  IF Includes(errorMessage, NeedleFailedToFetch) \/ Includes(errorMessage, NeedleNetworkError)
    THEN MsgCannotConnectCapture
    ELSE errorMessage

\* The failure toast's primaryAction is "Open Settings".
OffersOpenSettings(errorMessage) == Includes(errorMessage, NeedleApiToken)

\* QuickCapture.handleSubmit from the return of appendToJournal on.
QuickCapture_handleSubmitSettled(r) ==
  /\ command = "QuickCapture"
  /\ r \in Arrived
  /\ LET outcome == WriteOutcome(r, MsgFailedToAppendToJournal)
     IN  IF ~outcome.threw
           THEN /\ toast' = Toast("success", "Captured!", MsgCapturedJournal, FALSE)
                /\ popped' = TRUE
           ELSE /\ toast' = Toast("failure", "Capture Failed",
                                  QuickCaptureUserMessage(outcome.message),
                                  OffersOpenSettings(outcome.message))
                /\ UNCHANGED popped
  /\ isSubmitting' = FALSE
  /\ Settle(r)
  /\ UNCHANGED <<contentError, cfgToken, prefVars, graphVars, searchVars, pureVars>>

\* CaptureToJournal.handleSubmit (lines 267-297) up to the await.
CaptureToJournal_handleSubmit(content) ==
  /\ command = "CaptureToJournal"
  /\ ~popped
  /\ IF Blank(content)
       THEN /\ toast' = Toast("failure", "Empty content", MsgEmptyContent, FALSE)
            /\ UNCHANGED <<isSubmitting, reqs>>
       ELSE /\ CanIssue
            /\ isSubmitting' = TRUE
            /\ Issue(appendToJournal(content, ABSENT))
            /\ UNCHANGED toast
  /\ UNCHANGED <<contentError, popped, cfgToken, prefVars, graphVars, searchVars, pureVars>>

\* CaptureToJournal.handleSubmit (lines 267-297) from the return of
\* appendToJournal on.
CaptureToJournal_handleSubmitSettled(r) ==
  /\ command = "CaptureToJournal"
  /\ r \in Arrived
  /\ LET outcome == WriteOutcome(r, MsgFailedToAppendToJournal)
     IN  IF ~outcome.threw
           THEN /\ toast' = Toast("hud", "Captured to journal", UNDEFINED, FALSE)
                /\ popped' = TRUE
           ELSE /\ toast' = Toast("failure", "Capture Failed", outcome.message,
                                  OffersOpenSettings(outcome.message))
                /\ UNCHANGED popped
  /\ isSubmitting' = FALSE
  /\ Settle(r)
  /\ UNCHANGED <<contentError, cfgToken, prefVars, graphVars, searchVars, pureVars>>

\* CaptureToJournal.handleSubmit of the variant that passes the preference
\* token (lines 161-207), up to the await.
CaptureToJournalPref_handleSubmit(content) ==
  /\ command = "CaptureToJournalPref"
  /\ ~popped
  /\ IF Blank(content)
       THEN /\ toast' = Toast("failure", "Empty content", MsgEmptyContent, FALSE)
            /\ UNCHANGED <<isSubmitting, reqs>>
       ELSE IF ~TokenTruthy(prefApiToken)
         THEN /\ toast' = Toast("failure", "API Token Required", MsgTokenRequired, TRUE)
              /\ isSubmitting' = FALSE
              /\ UNCHANGED reqs
         ELSE /\ CanIssue
              /\ isSubmitting' = TRUE
              /\ Issue(appendToJournal(content, prefApiToken))
              /\ UNCHANGED toast
  /\ UNCHANGED <<contentError, popped, cfgToken, prefVars, graphVars, searchVars, pureVars>>

\* The same variant from the return of appendToJournal on.
CaptureToJournalPref_handleSubmitSettled(r) ==
  /\ command = "CaptureToJournalPref"
  /\ r \in Arrived
  /\ LET outcome == WriteOutcome(r, MsgFailedToAppendToJournal)
     IN  IF ~outcome.threw
           THEN /\ toast' = Toast("hud", "Captured to journal", UNDEFINED, FALSE)
                /\ popped' = TRUE
           ELSE /\ toast' = Toast("failure", "Capture Failed", outcome.message, FALSE)
                /\ UNCHANGED popped
  /\ isSubmitting' = FALSE
  /\ Settle(r)
  /\ UNCHANGED <<contentError, cfgToken, prefVars, graphVars, searchVars, pureVars>>

\* The caller of the service awaits each call: none is in flight at the next.
Awaited == reqs = EmptyBag

\* A caller of the exported service calls append(content, token).
Api_append(content, token) ==
  /\ command = "api"
  /\ Awaited
  /\ Issue(append(content, token))
  /\ UNCHANGED <<cfgToken, prefVars, formVars, graphVars, searchVars, pureVars>>

\* A caller of the exported service calls search(query, graph, maxResults).
Api_search(query, graph, limit) ==
  /\ command = "api"
  /\ Awaited
  /\ Issue(searchRequest(query, graph, limit, "none"))
  /\ UNCHANGED <<cfgToken, prefVars, formVars, graphVars, searchVars, pureVars>>

\* A caller of the exported service calls listGraphs().
Api_listGraphs ==
  /\ command = "api"
  /\ Awaited
  /\ Issue(listGraphsRequest)
  /\ UNCHANGED <<cfgToken, prefVars, formVars, graphVars, searchVars, pureVars>>

\* What the promise of request r settles with.
ApiOutcome(r) ==
  CASE r.path = "/search" -> search(r)
    [] r.path = "/list" -> listGraphs(r)
    [] r.path = "/query" -> Query(r)
    [] r.path = AppendPath ->
         [WriteOutcome(r, MsgFailedToAppendContent) EXCEPT !.threw = @] @@ [value |-> <<>>]
    [] OTHER ->
         [WriteOutcome(r, MsgFailedToAppendToJournal) EXCEPT !.threw = @] @@ [value |-> <<>>]

\* The caller's promise settles: the caller sees what it was called with and
\* what it settled with.
Api_settled(r) ==
  /\ command = "api"
  /\ r \in Arrived
  /\ pureIn' = [fn |-> r.path, response |-> r]
  /\ pureOut' = [fn |-> r.path] @@ ApiOutcome(r)
  /\ Settle(r)
  /\ UNCHANGED <<cfgToken, prefVars, formVars, graphVars, searchVars>>

\* The user edits the API token in the extension preferences, and the
\* service takes the new one over, as refreshPreferences would.
ChangeApiTokenPreference_refreshing(token) ==
  /\ token # prefApiToken
  /\ prefApiToken' = token
  /\ apiToken' = token
  /\ UNCHANGED <<command, serverUrl, captureTemplate, maxResultsPref, formVars,
                 gatewayVars, graphVars, searchVars, pureVars>>

\* The user edits the API token in the extension preferences.
ChangeApiTokenPreference(token) ==
  /\ token # prefApiToken
  /\ prefApiToken' = token
  /\ UNCHANGED <<command, apiToken, serverUrl, captureTemplate, maxResultsPref, formVars,
                 gatewayVars, graphVars, searchVars, pureVars>>

(***************************************************************************)
(* useGraphs (hooks/useGraphs.ts)                                           *)
(***************************************************************************)
\* The requests left when r is gone.
Without(r) == reqs (-) SetToBag({r})

\* controller.abort(): the requests of the effect now cleaned up are aborted.
AbortRequest(r) == IF r.ctl = "live" THEN [r EXCEPT !.ctl = "aborted"] ELSE r

Abort(bag) == BagOfAll(AbortRequest, bag)

\* `!searchText || !selectedGraph`: no trim.
NothingToSearch_untrimmed(text, graph) == text = <<>> \/ ~Truthy(graph)

\* A text is blank, or no graph is selected: the effect searches nothing.
NothingToSearch(text, graph) == Blank(text) \/ ~Truthy(graph)

\* The search effect mounted for given dependencies.
EffectFor(text, graph) ==
  [timer |-> ~NothingToSearch(text, graph), text |-> text, graph |-> graph]

\* The render after a handler left the dependencies of the search effect as
\* (text, graph), the results as res, the search error as err and the
\* requests as bag: when a dependency changed, the old effect is cleaned up
\* and the effect runs again.
RenderEffect(text, graph, res, err, bag) ==
  IF text = searchText /\ graph = selectedGraph
    THEN /\ effect' = effect
         /\ results' = res
         /\ searchError' = err
         /\ reqs' = bag
    ELSE /\ effect' = EffectFor(text, graph)
         /\ reqs' = Abort(bag)
         /\ IF NothingToSearch(text, graph)
              THEN results' = <<>> /\ searchError' = NULL
              ELSE results' = res /\ searchError' = err

\* x is an element of the list xs.
InList(x, xs) == \E i \in 1..Len(xs) : xs[i] = x

\* The runs the hook is mounted in: the Search command, and a component that
\* uses nothing but the hook.
HookCommands == {"SearchLogseq", "useGraphs"}

\* refresh: fetchGraphs up to `await logseqAPI.listGraphs()`.
useGraphs_fetchGraphs ==
  /\ command = "useGraphs"
  /\ CanIssue
  /\ isLoading' = TRUE
  /\ error' = NULL
  /\ Issue(listGraphsRequest)
  /\ UNCHANGED <<graphs, selectedGraph, isInitialized, initialGraph, storage,
                 cfgToken, prefVars, formVars, searchVars, pureVars>>

\* The error useGraphs shows for a message thrown.
FetchGraphsError(errorMessage) ==
  IF Includes(errorMessage, NeedleFailedToFetch) \/ Includes(errorMessage, NeedleNetworkError)
    THEN MsgCannotConnectGraphs
    ELSE MsgFailedToLoadGraphsPrefix \o errorMessage

\* fetchGraphs from the return of listGraphs to `await LocalStorage.getItem`,
\* or through its catch and finally.
useGraphs_fetchGraphsListed(r) ==
  /\ command \in HookCommands
  /\ r \in Arrived
  /\ r.path = "/list"
  /\ IF ~listGraphs(r).threw
       THEN /\ graphs' = listGraphs(r).value
            /\ Progress(r, [r EXCEPT !.stage = "getItem"])
            /\ UNCHANGED <<error, isLoading>>
       ELSE /\ error' = FetchGraphsError(listGraphs(r).message)
            /\ isLoading' = FALSE
            /\ Settle(r)
            /\ UNCHANGED graphs
  /\ UNCHANGED <<selectedGraph, isInitialized, initialGraph, storage,
                 cfgToken, prefVars, formVars, searchVars, pureVars>>

\* The graph fetchGraphs selects.
GraphToUse(savedGraph, graphNames) ==
  IF Truthy(savedGraph) /\ InList(savedGraph, graphNames) THEN savedGraph
  ELSE IF Len(graphNames) > 0 THEN graphNames[1]
  ELSE <<>>

\* fetchGraphs from the return of LocalStorage.getItem on.
useGraphs_fetchGraphsLoaded(r) ==
  /\ command \in HookCommands
  /\ r \in AtStage("getItem")
  /\ LET graphToUse == GraphToUse(storage, listGraphs(r).value)
     IN  /\ initialGraph' = graphToUse
         /\ selectedGraph' = graphToUse
         /\ RenderEffect(searchText, graphToUse, results, searchError, Without(r))
  /\ isInitialized' = TRUE
  /\ isLoading' = FALSE
  /\ UNCHANGED <<graphs, error, storage, searchText, isSearching, pendingChanges,
                 cfgToken, prefVars, formVars, pureVars>>

\* setSelectedGraph that saves the selection whether or not the hook is
\* initialized.
useGraphs_setSelectedGraph_saving(newGraph) ==
  /\ command = "useGraphs"
  /\ IF ~isInitialized /\ newGraph = initialGraph
       THEN UNCHANGED <<selectedGraph, storage>>
       ELSE /\ selectedGraph' = newGraph
            /\ storage' = newGraph
  /\ UNCHANGED <<graphs, isLoading, error, isInitialized, initialGraph,
                 gatewayVars, prefVars, formVars, searchVars, pureVars>>

\* setSelectedGraph(newGraph), called by a component that has no search effect.
useGraphs_setSelectedGraph(newGraph) ==
  /\ command = "useGraphs"
  /\ IF ~isInitialized /\ newGraph = initialGraph
       THEN UNCHANGED <<selectedGraph, storage>>
       ELSE /\ selectedGraph' = newGraph
            /\ storage' = IF isInitialized THEN newGraph ELSE storage
  /\ UNCHANGED <<graphs, isLoading, error, isInitialized, initialGraph,
                 gatewayVars, prefVars, formVars, searchVars, pureVars>>

(***************************************************************************)
(* SearchLogseq (search-logseq.tsx)                                         *)
(***************************************************************************)
DefaultMaxResults == 20
MaxResultsCap == 100

DigitValue(c) ==
  CASE c = "0" -> 0 [] c = "1" -> 1 [] c = "2" -> 2 [] c = "3" -> 3 [] c = "4" -> 4
    [] c = "5" -> 5 [] c = "6" -> 6 [] c = "7" -> 7 [] c = "8" -> 8 [] c = "9" -> 9

IsDigit(c) == c \in {"0", "1", "2", "3", "4", "5", "6", "7", "8", "9"}

\* The value of the longest prefix of s made of digits, continuing acc.
RECURSIVE DigitsValue(_, _)
DigitsValue(s, acc) ==
  IF s = <<>> \/ ~IsDigit(Head(s)) THEN acc
  ELSE DigitsValue(Tail(s), 10 * acc + DigitValue(Head(s)))

NaN == [nan |-> TRUE, value |-> 0]

\* parseInt(text, 10)
ParseInt(text) ==
  LET s == TrimStart(text)
      signed == s # <<>> /\ Head(s) \in {"+", "-"}
      digits == IF signed THEN Tail(s) ELSE s
  IN  IF digits = <<>> \/ ~IsDigit(Head(digits)) THEN NaN
      ELSE [nan |-> FALSE,
            value |-> IF signed /\ Head(s) = "-"
                        THEN 0 - DigitsValue(digits, 0) ELSE DigitsValue(digits, 0)]

\* The maxResults the command searches with (lines 25-28).
MaxResults(pref) ==
  LET parsed == ParseInt(IF Truthy(pref) THEN pref ELSE <<"2", "0">>)
  IN  IF parsed.nan \/ parsed.value < 1 THEN DefaultMaxResults
      ELSE Min(parsed.value, MaxResultsCap)

maxResults == MaxResults(maxResultsPref)

\* onSearchTextChange={setSearchText}
SearchLogseq_setSearchText(text) ==
  /\ command = "SearchLogseq"
  /\ text # searchText
  /\ searchText' = text
  /\ RenderEffect(text, selectedGraph, results, searchError, reqs)
  /\ UNCHANGED <<isSearching, pendingChanges, cfgToken, prefVars, formVars, graphVars, pureVars>>

\* The values the dropdown offers.
DropdownValues ==
  IF Len(graphs) = 0 THEN {<<>>} ELSE {graphs[i] : i \in 1..Len(graphs)}

\* handleGraphChange up to the return of `await setSelectedGraph(graph)`
\* when that awaits LocalStorage.setItem, and to its end when it does not.
SearchLogseq_handleGraphChange(graph) ==
  /\ command = "SearchLogseq"
  /\ graph \in DropdownValues
  /\ IF ~isInitialized /\ graph = initialGraph
       THEN /\ searchText' = <<>>
            /\ RenderEffect(<<>>, selectedGraph, <<>>, searchError, reqs)
            /\ UNCHANGED <<selectedGraph, storage, pendingChanges>>
       ELSE IF ~isInitialized
         THEN /\ selectedGraph' = graph
              /\ searchText' = <<>>
              /\ RenderEffect(<<>>, graph, <<>>, searchError, reqs)
              /\ UNCHANGED <<storage, pendingChanges>>
         ELSE /\ pendingChanges < MaxPendingChanges
              /\ selectedGraph' = graph
              /\ storage' = graph
              /\ pendingChanges' = pendingChanges + 1
              /\ RenderEffect(searchText, graph, results, searchError, reqs)
              /\ UNCHANGED searchText
  /\ UNCHANGED <<graphs, isLoading, error, isInitialized, initialGraph, isSearching,
                 cfgToken, prefVars, formVars, pureVars>>

\* handleGraphChange from the return of `await setSelectedGraph(graph)` on.
SearchLogseq_handleGraphChanged ==
  /\ command = "SearchLogseq"
  /\ pendingChanges > 0
  /\ pendingChanges' = pendingChanges - 1
  /\ searchText' = <<>>
  /\ RenderEffect(<<>>, selectedGraph, <<>>, searchError, reqs)
  /\ UNCHANGED <<isSearching, cfgToken, prefVars, formVars, graphVars, pureVars>>

\* The searches of the command in flight.
Searches == {r \in InFlight : r.path = "/search"}

CanSearch == BagCardinality([r \in Searches |-> reqs[r]]) < MaxSearches

\* The effect's timer fires: the callback up to `await logseqAPI.search(...)`.
SearchLogseq_search ==
  /\ command = "SearchLogseq"
  /\ effect.timer
  /\ CanSearch
  /\ effect' = [effect EXCEPT !.timer = FALSE]
  /\ isSearching' = TRUE
  /\ searchError' = NULL
  /\ Issue(searchRequest(effect.text, effect.graph, <<maxResults>>, "live"))
  /\ UNCHANGED <<searchText, results, pendingChanges, cfgToken, prefVars, formVars,
                 graphVars, pureVars>>

\* The callback from the return of search to its end, or, when search threw,
\* to `await showToast(...)`.
SearchLogseq_searchSettled(r) ==
  /\ command = "SearchLogseq"
  /\ r \in Arrived
  /\ r.path = "/search"
  /\ LET outcome == search(r)
     IN  IF r.ctl = "aborted"
           THEN /\ Settle(r)
                /\ UNCHANGED <<results, searchError, isSearching, toast>>
           ELSE IF ~outcome.threw
             THEN /\ results' = outcome.value
                  /\ searchError' = IF Len(outcome.value) = 0 THEN MsgNoResultsFound
                                    ELSE searchError
                  /\ isSearching' = FALSE
                  /\ Settle(r)
                  /\ UNCHANGED toast
             ELSE /\ searchError' = outcome.message
                  /\ results' = <<>>
                  /\ toast' = Toast("failure", "Search failed", outcome.message, FALSE)
                  /\ Progress(r, [r EXCEPT !.stage = "showToast"])
                  /\ UNCHANGED isSearching
  /\ UNCHANGED <<searchText, effect, pendingChanges, isSubmitting, contentError, popped,
                 cfgToken, prefVars, graphVars, pureVars>>

\* The callback from the return of showToast on: its finally block.
SearchLogseq_searchFailed(r) ==
  /\ command = "SearchLogseq"
  /\ r \in AtStage("showToast")
  /\ isSearching' = IF r.ctl = "aborted" THEN isSearching ELSE FALSE
  /\ Settle(r)
  /\ UNCHANGED <<searchText, results, searchError, effect, pendingChanges,
                 cfgToken, prefVars, formVars, graphVars, pureVars>>

(***************************************************************************)
(* Initial state                                                            *)
(***************************************************************************)
\* No search effect is mounted.
NoEffect == [timer |-> FALSE, text |-> <<>>, graph |-> <<>>]

\* The state after the service is constructed, the gateway is started and the
\* command's component is mounted, for given preferences, gateway flag and
\* saved graph.
InitWith(cmd, prefToken, template, maxResultsText, serverToken, savedGraph) ==
  /\ command = cmd
  /\ prefApiToken = prefToken
  /\ apiToken = prefToken
  /\ serverUrl = DefaultServerUrl
  /\ captureTemplate = template
  /\ maxResultsPref = maxResultsText
  /\ isSubmitting = FALSE
  /\ contentError = UNDEFINED
  /\ toast = NoToast
  /\ popped = FALSE
  /\ cfgToken = serverToken
  /\ graphs = <<>>
  /\ selectedGraph = <<>>
  /\ isLoading = TRUE
  /\ error = NULL
  /\ isInitialized = FALSE
  /\ initialGraph = NULL
  /\ storage = savedGraph
  /\ searchText = <<>>
  /\ results = <<>>
  /\ isSearching = FALSE
  /\ searchError = NULL
  /\ effect = NoEffect
  /\ pendingChanges = 0
  /\ pureIn = [fn |-> "none"]
  /\ pureOut = [fn |-> "none"]

(***************************************************************************)
(* The capture commands against the gateway                                 *)
(***************************************************************************)
\* What a caller of logseqAPI.append passes.
ApiContents == {<<>>, <<"a">>}
ApiTokens == {ABSENT, "tokB"}

InitCapture ==
  \E cmd \in Forms \cup {"api"}, prefToken \in RunTokens,
     template \in CaptureTemplates, serverToken \in ServerTokens :
    /\ cmd # "QuickCapture" => template = Placeholder
    /\ InitWith(cmd, prefToken, template, <<"2", "0">>, serverToken, UNDEFINED)
    /\ reqs = EmptyBag

NextCapture ==
  \/ \E values \in QuickCaptureValues : QuickCapture_handleSubmit(values)
  \/ \E content \in CaptureContents : CaptureToJournal_handleSubmit(content)
  \/ \E content \in CaptureContents : CaptureToJournalPref_handleSubmit(content)
  \/ \E content \in ApiContents, token \in ApiTokens : Api_append(content, token)
  \/ Api_listGraphs
  \/ \E token \in RunTokens : ChangeApiTokenPreference(token)
  \/ \E r \in InFlight :
       \/ GwAppendToJournal(r)
       \/ GwAppendToJournalReturn(r)
       \/ GwAppend(r)
       \/ GwAppendReturn(r)
       \/ GwList(r)
       \/ GwListReturn(r)
       \/ FetchRejects(r)
       \/ QuickCapture_handleSubmitSettled(r)
       \/ CaptureToJournal_handleSubmitSettled(r)
       \/ CaptureToJournalPref_handleSubmitSettled(r)
       \/ Api_settled(r)

SpecCapture == InitCapture /\ [][NextCapture]_vars

(***************************************************************************)
(* The pure functions, applied on their own                                 *)
(***************************************************************************)
\* The lists of at most n elements of a set.
ListsUpTo(S, n) == UNION {[1..k -> S] : k \in 0..n}

PureContents == {<<"b">>, <<" ", "b", "\n", "$", "&">>}
PureTags == {<<>>, <<"t">>, <<"#", "t">>, <<"#", "#", "a">>, <<"t", "o", "d", "o">>, <<"w", "o", "r", "k">>}
PurePriorities == {UNDEFINED, <<>>, <<"A">>}
PureTemplates == {UNDEFINED, <<>>, Placeholder, <<"-", " ", "{", "c", "o", "n", "t", "e", "n", "t", "}">>}

\* No function was applied yet: each run applies one function to one input.
NotApplied == pureIn.fn = "none"

\* formatCaptureContent(content, { tags, priority, template })
Pure_formatCaptureContent ==
  \E content \in PureContents, tags \in ListsUpTo(PureTags, MaxTags) \cup {UNDEFINED_LIST},
     priority \in PurePriorities, template \in PureTemplates :
    /\ NotApplied
    /\ pureIn' = [fn |-> "formatCaptureContent", content |-> content, tags |-> tags,
                  priority |-> priority, template |-> template]
    /\ pureOut' = [fn |-> "formatCaptureContent",
                   value |-> formatCaptureContent(content, tags, priority, template)]
    /\ UNCHANGED <<prefVars, formVars, gatewayVars, graphVars, searchVars>>

PureYears == {1000, 2026, 9999}

DaysIn(year, month) ==
  IF month \in {4, 6, 9, 11} THEN 30
  ELSE IF month # 2 THEN 31
  ELSE IF year % 4 = 0 /\ (year % 100 # 0 \/ year % 400 = 0) THEN 29
  ELSE 28

\* The local dates datetime.now() can give.
PureDates ==
  {<<y, m, d>> : y \in PureYears, m \in 1..12, d \in 1..31} \cap
  {today \in PureYears \X (1..12) \X (1..31) : today[3] <= DaysIn(today[1], today[2])}

\* _append_to_journal(content, api_token) up to the request it posts.
Pure_NativeCall ==
  \E today \in PureDates, content \in PureContents :
    /\ NotApplied
    /\ pureIn' = [fn |-> "NativeCall", today |-> today, content |-> content]
    /\ pureOut' = [fn |-> "NativeCall", call |-> NativeCall(today, content, "tokA")]
    /\ UNCHANGED <<prefVars, formVars, gatewayVars, graphVars, searchVars>>

\* The lines `<tool> list` prints.
PureLines ==
  {<<>>, <<" ">>, <<"g", "1">>, <<" ", "g", " ", "2", "\r">>, HeaderDbGraphs, <<" ", "F", "i", "l", "e", " ", "G", "r", "a", "p", "h", "s", " ">>, <<"D", "B", " ", "G", "r", "a", "p", "h", "s", ":">>,
   <<"\t", "D", "B", " ", "G", "r", "a", "p", "h", "s", " ", "x">>}

\* The response to GET /list with a given envelope.
ListEnvelope(success, errorText, stdout) ==
  [GwAnswer(listGraphsRequest, 200, IF success THEN "ok" ELSE "ToolFailed",
            success, errorText) EXCEPT !.stdout = stdout]

\* listGraphs() on the response to a successful `<tool> list`.
Pure_listGraphs ==
  \E lines \in ListsUpTo(PureLines, MaxListLines) :
    /\ NotApplied
    /\ pureIn' = [fn |-> "listGraphs", lines |-> lines,
                  response |-> ListEnvelope(TRUE, UNDEFINED, Join(lines, <<"\n">>))]
    /\ pureOut' = [fn |-> "listGraphs"]
                    @@ listGraphs(ListEnvelope(TRUE, UNDEFINED, Join(lines, <<"\n">>)))
    /\ UNCHANGED <<prefVars, formVars, gatewayVars, graphVars, searchVars>>

\* listGraphs() on a response that has no stdout, or reports a failure.
Pure_listGraphsOther ==
  \E success \in BOOLEAN, errorText \in {UNDEFINED, <<>>, MsgFailedToFetchGraphs, GwMsgProcess} :
    /\ NotApplied
    /\ pureIn' = [fn |-> "listGraphs", lines |-> <<>>,
                  response |-> ListEnvelope(success, errorText, UNDEFINED)]
    /\ pureOut' = [fn |-> "listGraphs"]
                    @@ listGraphs(ListEnvelope(success, errorText, UNDEFINED))
    /\ UNCHANGED <<prefVars, formVars, gatewayVars, graphVars, searchVars>>

PureMaxResultsPrefs ==
  {UNDEFINED, <<>>, <<"0">>, <<"1">>, <<"2", "0">>, <<"0", "0", "7">>, <<"1", "0", "0">>, <<"1", "0", "1">>, <<"1", "5", "0">>, <<"a", "b", "c">>,
   <<"-", "3">>, <<" ", "7">>, <<"2", "x">>, <<"+", "5">>}

\* The maxResults of SearchLogseq for a given preference.
Pure_MaxResults ==
  \E pref \in PureMaxResultsPrefs :
    /\ NotApplied
    /\ pureIn' = [fn |-> "MaxResults", pref |-> pref]
    /\ pureOut' = [fn |-> "MaxResults", value |-> MaxResults(pref)]
    /\ UNCHANGED <<prefVars, formVars, gatewayVars, graphVars, searchVars>>

\* The methods of the service that throw on a failure.
ClientMethods == {"listGraphs", "search", "query", "append", "appendToJournal"}

\* A request of each method.
MethodRequest(method) ==
  CASE method = "listGraphs" -> listGraphsRequest
    [] method = "search" -> searchRequest(<<"f">>, <<"g", "1">>, <<>>, "none")
    [] method = "query" -> queryRequest(<<"f">>, <<"g", "1">>)
    [] method = "append" -> append(<<"a">>, ABSENT)
    [] method = "appendToJournal" -> appendToJournal(<<"a">>, ABSENT)

\* What can come back to a request: fetch() rejects, or a response of any
\* status whose envelope has an error and a stderr, or has none.
PureErrorTexts == {UNDEFINED, <<>>, <<"b", "o", "o", "m">>}
PureStatuses == {200, 401, 500}

ResponsesTo(r) ==
  {[r EXCEPT !.stage = "rejected", !.fetchError = msg] : msg \in FetchErrorMessages}
  \cup
  {[GwAnswer(r, status, "any", success, errorText) EXCEPT !.stderr = stderr] :
     status \in PureStatuses, success \in BOOLEAN,
     errorText \in PureErrorTexts, stderr \in PureErrorTexts}

\* What the gateway answers to a request of each method.
GatewayAnswers(method) ==
  LET r == MethodRequest(method)
      invalid == GwAnswer(r, 400, "ValidationError", FALSE, GwMsgMissingParameter)
  IN  CASE method = "listGraphs" ->
             {ToolListAnswer(r, outcome, <<>>) : outcome \in ToolOutcomes}
        [] method = "search" ->
             {ToolSearchAnswer(r, outcome, <<>>) : outcome \in ToolOutcomes} \cup {invalid}
        [] method = "append" ->
             {ToolAppendAnswer(r, outcome) : outcome \in ToolOutcomes}
             \cup {GwWriteRefusal(r, decision) : decision \in {"invalid", "unauthenticated"}}
        [] method = "appendToJournal" ->
             {NativeAnswer(r, outcome) : outcome \in NativeOutcomes}
             \cup {GwWriteRefusal(r, decision) : decision \in {"invalid", "unauthenticated"}}
        [] OTHER -> {}

\* A method of the service on what came back to its request.
Pure_method ==
  \E method \in ClientMethods, gateway \in BOOLEAN :
    \E response \in (IF gateway THEN GatewayAnswers(method)
                                ELSE ResponsesTo(MethodRequest(method))) :
      /\ NotApplied
      /\ pureIn' = [fn |-> "method", method |-> method, gateway |-> gateway,
                    response |-> response]
      /\ pureOut' = [fn |-> "method"] @@ ApiOutcome(response)
      /\ UNCHANGED <<prefVars, formVars, gatewayVars, graphVars, searchVars>>

InitPure ==
  /\ InitWith("pure", "", Placeholder, <<"2", "0">>, ABSENT, UNDEFINED)
  /\ reqs = EmptyBag

NextPure ==
  \/ Pure_formatCaptureContent
  \/ Pure_NativeCall
  \/ Pure_listGraphs
  \/ Pure_listGraphsOther
  \/ Pure_MaxResults
  \/ Pure_method

SpecPure == InitPure /\ [][NextPure]_vars

(***************************************************************************)
(* The Search command, the hook and the read methods against the gateway    *)
(***************************************************************************)
\* The Search command or a component of the hook is mounted: the initial
\* fetchGraphs has called listGraphs.  Or a caller of the service starts.
InitSearch ==
  \/ \E maxResultsText \in SearchMaxResultsPrefs, savedGraph \in SavedGraphs :
       /\ InitWith("SearchLogseq", "", Placeholder, maxResultsText, ABSENT, savedGraph)
       /\ reqs = SetToBag({listGraphsRequest})
  \/ \E savedGraph \in SavedGraphs :
       /\ InitWith("useGraphs", "", Placeholder, <<"2", "0">>, ABSENT, savedGraph)
       /\ reqs = SetToBag({listGraphsRequest})
  \/ /\ InitWith("api", "", Placeholder, <<"2", "0">>, ABSENT, UNDEFINED)
     /\ reqs = EmptyBag

NextSearch ==
  \/ \E text \in SearchTexts : SearchLogseq_setSearchText(text)
  \/ \E graph \in DropdownValues : SearchLogseq_handleGraphChange(graph)
  \/ SearchLogseq_handleGraphChanged
  \/ SearchLogseq_search
  \/ useGraphs_fetchGraphs
  \/ \E newGraph \in HookGraphs : useGraphs_setSelectedGraph(newGraph)
  \/ \E query \in ApiQueries, graph \in ApiGraphs, limit \in ApiLimits :
       Api_search(query, graph, limit)
  \/ Api_listGraphs
  \/ command = "api" /\ Pure_listGraphsOther
  \/ \E r \in InFlight :
       \/ GwList(r)
       \/ GwListReturn(r)
       \/ GwSearch(r)
       \/ GwSearchReturn(r)
       \/ FetchRejects(r)
       \/ useGraphs_fetchGraphsListed(r)
       \/ useGraphs_fetchGraphsLoaded(r)
       \/ SearchLogseq_searchSettled(r)
       \/ SearchLogseq_searchFailed(r)
       \/ Api_settled(r)

SpecSearch == InitSearch /\ [][NextSearch]_vars

(***************************************************************************)
(* Properties                                                               *)
(***************************************************************************)
\* The requests a step issues: those new in the bag that no handler has
\* touched and no effect has aborted.
Issued == {r \in BagToSet(reqs' (-) reqs) : r.stage = "sent" /\ r.ctl # "aborted"}

\* A step issues exactly one request, a POST to /append-to-journal.
IssuesJournalPost ==
  /\ BagCardinality(reqs') = BagCardinality(reqs) + 1
  /\ \A r \in Issued : r.method = "POST" /\ r.path = "/append-to-journal" /\ r.stage = "sent"

\* A submission of Quick Capture or Quick Note that passes the blank check.
AcceptedSubmission ==
  \/ \E values \in QuickCaptureValues :
       ~Blank(values.content) /\ QuickCapture_handleSubmit(values)
  \/ \E content \in CaptureContents :
       ~Blank(content) /\ CaptureToJournal_handleSubmit(content)

\* C1: every submission of the Quick Capture and Quick Note forms that passes
\* the blank-content check issues one POST /append-to-journal, and no request
\* of a capture form is ever a POST /append.
C1_SubmissionsPostToJournal ==
  /\ [](command \in Forms =>
          \A r \in InFlight : r.method = "POST" /\ r.path = "/append-to-journal")
  /\ [][AcceptedSubmission => IssuesJournalPost]_vars

C1_Witness ==
  /\ command \in {"QuickCapture", "CaptureToJournal"}
  /\ isSubmitting
  /\ \E r \in AtStage("responded") : r.path = "/append-to-journal" /\ r.success

\* C2: the gateway makes at most one backend call for a request and never a
\* second one: /append runs the tool at most once and never calls the desktop
\* application; /append-to-journal calls it at most once and never runs the
\* tool.
C2_AtMostOneBackendCall ==
  \A r \in InFlight :
    /\ r.spawns + r.nativeCalls <= 1
    /\ r.path = "/append" => r.nativeCalls = 0
    /\ r.path = "/append-to-journal" => r.spawns = 0
    /\ r.stage = "backend" => r.spawns + r.nativeCalls = 1

C2_Witness ==
  /\ \E r \in AtStage("responded") :
       r.path = "/append-to-journal" /\ r.nativeCalls = 1 /\ r.kind = "UnreachableError"
  /\ \E r \in AtStage("responded") :
       r.path = "/append-to-journal" /\ r.nativeCalls = 1 /\ r.success

\* No token is in the body of r and none is configured on the server.
NoTokenResolves(r) == r.token = ABSENT /\ cfgToken = ABSENT

Given(t) == t # ABSENT /\ t # ""

\* The body token the priority order asks for.
ExpectedBodyToken(explicit, cached) ==
  IF Given(explicit) THEN explicit ELSE IF Given(cached) THEN cached ELSE ABSENT

\* Every request a step issues has the given body token.
IssuesToken(t) == Issued # {} /\ \A r \in Issued : r.token = t

\* The client side of C4, for each caller of append and appendToJournal.
ClientTokenPriority ==
  /\ (\E values \in QuickCaptureValues :
        ~Blank(values.content) /\ QuickCapture_handleSubmit(values))
       => IssuesToken(ExpectedBodyToken(ABSENT, apiToken))
  /\ (\E content \in CaptureContents :
        ~Blank(content) /\ CaptureToJournal_handleSubmit(content))
       => IssuesToken(ExpectedBodyToken(ABSENT, apiToken))
  /\ (\E content \in CaptureContents :
        /\ ~Blank(content)
        /\ Given(prefApiToken)
        /\ CaptureToJournalPref_handleSubmit(content))
       => IssuesToken(ExpectedBodyToken(prefApiToken, apiToken))
  /\ \A token \in ApiTokens :
       (\E content \in ApiContents : Api_append(content, token))
         => IssuesToken(ExpectedBodyToken(token, apiToken))

\* The token a backend call carries.
CallToken(call) == IF call.kind = "native" THEN call.bearer ELSE call.token

IsWrite(r) == r.path \in {"/append", "/append-to-journal"}

\* The gateway side of C4.
GatewayTokenPriority ==
  \A r \in InFlight :
    /\ (IsWrite(r) /\ r.stage = "backend") =>
         /\ CallToken(r.call) = (IF r.token # ABSENT THEN r.token ELSE cfgToken)
         /\ CallToken(r.call) # ABSENT
    /\ (IsWrite(r) /\ r.stage = "responded" /\ r.spawns + r.nativeCalls = 0
          /\ r.kind = "AuthError") => NoTokenResolves(r)
    /\ (IsWrite(r) /\ NoTokenResolves(r)) => r.spawns + r.nativeCalls = 0
    /\ (r.path = "/list" /\ r.stage = "responded") => (r.spawns = 1 /\ r.kind # "AuthError")

\* C4: the client sends the explicit token if it is non-empty, else the
\* cached preference token, and a token field only if that is non-empty; the
\* gateway uses the body token before the configured one and refuses a write
\* only when there is neither, while a read goes on without any.
C4_TokenPriority == []GatewayTokenPriority /\ [][ClientTokenPriority]_vars

C4_Witness ==
  /\ command = "api"
  /\ apiToken = "tokA"
  /\ cfgToken = "tokS"
  /\ \E r \in AtStage("backend") : r.token = "tokB" /\ CallToken(r.call) = "tokB"

\* C4, further cases reached: a write refused with neither token, and a read
\* answered with neither.
C4_WitnessRefused ==
  /\ cfgToken = ABSENT
  /\ \E r \in AtStage("responded") : IsWrite(r) /\ r.token = ABSENT /\ r.kind = "AuthError"

C4_WitnessRead ==
  /\ cfgToken = ABSENT
  /\ \E r \in AtStage("responded") : r.path = "/list" /\ r.success

\* The number a text of decimal digits stands for.
Number(text) == DigitsValue(text, 0)

\* C5: for every local date the journal key is the date as zero-padded
\* YYYY-MM-DD (2026-02-02 gives "2026-02-02"), and the desktop application is
\* called with [journalKey, content], the content unchanged.
C5_JournalKeyAndArguments ==
  pureIn.fn = "NativeCall" =>
    LET key == pureOut.call.payload.args[1]
    IN  /\ pureOut.call.payload.method = "logseq.Editor.appendBlockInPage"
        /\ pureOut.call.payload.args = <<key, pureIn.content>>
        /\ Len(key) = 10
        /\ key[5] = "-" /\ key[8] = "-"
        /\ \A i \in {1, 2, 3, 4, 6, 7, 9, 10} : IsDigit(key[i])
        /\ Number(SubSeq(key, 1, 4)) = pureIn.today[1]
        /\ Number(SubSeq(key, 6, 7)) = pureIn.today[2]
        /\ Number(SubSeq(key, 9, 10)) = pureIn.today[3]
        /\ pureIn.today = <<2026, 2, 2>> => key = <<"2", "0", "2", "6", "-", "0", "2", "-", "0", "2">>

C5_Witness ==
  /\ pureIn.fn = "NativeCall"
  /\ pureIn.today = <<2026, 2, 2>>
  /\ pureOut.call.payload.args = <<<<"2", "0", "2", "6", "-", "0", "2", "-", "0", "2">>, pureIn.content>>
  /\ Len(pureIn.content) > 1

\* A line has no colon.
ColonFree(line) == \A i \in 1..Len(line) : line[i] # ":"

\* A line the claim keeps: non-blank, colon-free, not a section header.
NamesGraph(line) ==
  /\ Trim(line) # <<>>
  /\ ColonFree(line)
  /\ Trim(line) \notin {<<"D", "B", " ", "G", "r", "a", "p", "h", "s">>, <<"F", "i", "l", "e", " ", "G", "r", "a", "p", "h", "s">>}

\* The trimmed forms of the lines the claim keeps, in their order.
ExpectedNames(lines) ==
  LET kept == SelectSeq(lines, NamesGraph)
  IN  [i \in 1..Len(kept) |-> Trim(kept[i])]

\* C6: for every stdout of a successful /list response, listGraphs returns,
\* in their order, the trimmed forms of the lines that are non-blank, have no
\* colon and are no section header; so every name returned is trimmed,
\* non-empty, colon-free and no section header.
C6_GraphNamesOfStdout ==
  (pureIn.fn = "listGraphs" /\ pureIn.response.success /\ pureIn.response.stdout # UNDEFINED) =>
    /\ ~pureOut.threw
    /\ pureOut.value = ExpectedNames(pureIn.lines)
    /\ \A i \in 1..Len(pureOut.value) :
         LET name == pureOut.value[i]
         IN  /\ name # <<>>
             /\ name[1] \notin WhiteSpace /\ name[Len(name)] \notin WhiteSpace
             /\ ColonFree(name)
             /\ name \notin {<<"D", "B", " ", "G", "r", "a", "p", "h", "s">>, <<"F", "i", "l", "e", " ", "G", "r", "a", "p", "h", "s">>}

C6_Witness ==
  /\ pureIn.fn = "listGraphs"
  /\ pureIn.lines = <<<<"D", "B", " ", "G", "r", "a", "p", "h", "s", ":">>, <<" ", "g", " ", "2", "\r">>, <<"g", "1">>>>
  /\ pureOut.value = <<<<"g", " ", "2">>, <<"g", "1">>>>

\* The fetch of the hook comes back with the failure of the tool.
ListToolFailed ==
  \E r \in AtStage("responded") :
    /\ r.path = "/list"
    /\ r.kind = "ToolFailed"
    /\ useGraphs_fetchGraphsListed(r)

\* C7: when the tool behind /list exits nonzero the response is
\* {success:false, error:"Failed to fetch graphs"}; listGraphs throws the
\* error text of a failed response, or "Failed to fetch graphs" when it has
\* none, and returns no list; useGraphs then sets its error, leaves graphs
\* and selectedGraph as they were and sets isLoading to false.
C7_ListFailure ==
  /\ [](\A r \in AtStage("responded") :
          (r.path = "/list" /\ r.kind = "ToolFailed") =>
             /\ ~r.success
             /\ r.error = <<"F", "a", "i", "l", "e", "d", " ", "t", "o", " ", "f", "e", "t", "c", "h", " ", "g", "r", "a", "p", "h", "s">>
             /\ listGraphs(r).threw
             /\ listGraphs(r).message = <<"F", "a", "i", "l", "e", "d", " ", "t", "o", " ", "f", "e", "t", "c", "h", " ", "g", "r", "a", "p", "h", "s">>
             /\ listGraphs(r).value = <<>>)
  /\ [](pureOut.fn = "/list" /\ pureIn.response.stage = "responded"
          /\ pureIn.response.status = 200 /\ ~pureIn.response.success =>
             /\ pureOut.threw
             /\ pureOut.value = <<>>
             /\ pureOut.message = (IF pureIn.response.error \in {UNDEFINED, <<>>}
                                     THEN <<"F", "a", "i", "l", "e", "d", " ", "t", "o", " ", "f", "e", "t", "c", "h", " ", "g", "r", "a", "p", "h", "s">>
                                     ELSE pureIn.response.error))
  /\ [](pureIn.fn = "listGraphs" /\ ~pureIn.response.success =>
             /\ pureOut.threw
             /\ pureOut.value = <<>>
             /\ pureOut.message = (IF pureIn.response.error \in {UNDEFINED, <<>>}
                                     THEN <<"F", "a", "i", "l", "e", "d", " ", "t", "o", " ", "f", "e", "t", "c", "h", " ", "g", "r", "a", "p", "h", "s">>
                                     ELSE pureIn.response.error))
  /\ [][ListToolFailed =>
          /\ error' # NULL /\ error' # <<>>
          /\ graphs' = graphs
          /\ selectedGraph' = selectedGraph
          /\ isLoading' = FALSE]_vars

C7_Witness ==
  /\ command = "useGraphs"
  /\ Len(graphs) = 2
  /\ selectedGraph = <<"g", "2">>
  /\ error = MsgCannotConnectGraphs
  /\ ~isLoading
  /\ \E r \in AtStage("responded") : r.path = "/list" /\ r.kind = "ToolFailed"

\* A tag without its leading '#' characters.
RECURSIVE Bare(_)
Bare(t) == IF t # <<>> /\ Head(t) = "#" THEN Bare(Tail(t)) ELSE t

\* A tag with exactly one '#' in front.
Hashed(t) == <<"#">> \o Bare(t)

\* "[#P] " for a priority P, nothing without one.
PriorityMark(priority) ==
  IF priority \in {UNDEFINED, <<>>} THEN <<>> ELSE <<"[", "#">> \o priority \o <<"]", " ">>

\* C8: with a non-empty tag list and no template, formatCaptureContent gives
\* the content, one space, and the tags, each with exactly one '#' in front
\* and one space between them; a priority P puts "[#P] " in front of that.
C8_TagsHashedOnce ==
  (/\ pureIn.fn = "formatCaptureContent"
   /\ pureIn.tags # UNDEFINED_LIST
   /\ Len(pureIn.tags) > 0
   /\ pureIn.template \in {UNDEFINED, <<>>}) =>
    pureOut.value = PriorityMark(pureIn.priority) \o pureIn.content \o <<" ">>
                      \o Join([i \in 1..Len(pureIn.tags) |-> Hashed(pureIn.tags[i])], <<" ">>)

\* C8, the case of the specification: tags ["todo", "work"] give
\* "<content> #todo #work", and priority "A" puts "[#A] " in front.
C8_TodoWork ==
  (/\ pureIn.fn = "formatCaptureContent"
   /\ pureIn.tags = <<<<"t", "o", "d", "o">>, <<"w", "o", "r", "k">>>>
   /\ pureIn.template \in {UNDEFINED, <<>>}) =>
    pureOut.value = PriorityMark(pureIn.priority) \o pureIn.content \o <<" ", "#", "t", "o", "d", "o", " ", "#", "w", "o", "r", "k">>

C8_FailingInput ==
  /\ pureIn.fn = "formatCaptureContent"
  /\ pureIn.content = <<"b">>
  /\ pureIn.tags = << <<"#", "#", "a">> >>
  /\ pureIn.priority = UNDEFINED
  /\ pureIn.template = UNDEFINED
  /\ pureOut.value = <<"b", " ", "#", "#", "a">>

\* Every character of a text is white space.
AllWhiteSpace(text) == \A i \in 1..Len(text) : text[i] \in WhiteSpace

\* The Search command has nothing to search: a blank text or no graph.
SearchIsIdle == AllWhiteSpace(searchText) \/ selectedGraph = <<>>

\* The first n elements of a list, or all of a shorter one.
FirstN(xs, n) == [i \in 1..(IF n < Len(xs) THEN n ELSE Len(xs)) |-> xs[i]]

\* A search of the command comes back with records and is still current.
SearchSucceeded(r) ==
  /\ r.stage = "responded"
  /\ r.path = "/search"
  /\ r.ctl = "live"
  /\ r.success
  /\ SearchLogseq_searchSettled(r)

\* What the gateway and the Search command do in C9: the gateway answers
\* with every record the tool found; the command's maxResults is within
\* 1..100, 20 by default, it passes it to search and never shows more
\* records than that.
GatewayPassesAll ==
  \A r \in AtStage("responded") :
    (r.path = "/search" /\ r.success) => r.data = [k \in 1..Len(r.data) |-> k]

CommandShowsAtMostMaxResults ==
  command = "SearchLogseq" =>
    /\ maxResults \in 1..100
    /\ maxResultsPref = <<"a", "b", "c">> => maxResults = 20
    /\ Len(results) <= maxResults
    /\ \A r \in InFlight : r.path = "/search" => r.limit = <<maxResults>>

CommandShowsFirstMaxResults ==
  \A r \in InFlight : SearchSucceeded(r) => results' = FirstN(r.data, maxResults)

\* search was called with a maxResults and has returned.
SearchReturned ==
  pureOut.fn = "/search" /\ ~pureOut.threw /\ pureIn.response.limit # <<>>

\* C9: the gateway answers with every record the tool found; the client's
\* search returns the first min(maxResults, N) of the N records in their
\* order, for every maxResults it is called with; the Search command's
\* maxResults is within 1..100, 20 by default, and it never shows more than
\* maxResults records.
C9_ResultsTruncatedByClient ==
  /\ []GatewayPassesAll
  /\ [](SearchReturned =>
          pureOut.value = FirstN(pureIn.response.data, pureIn.response.limit[1]))
  /\ []CommandShowsAtMostMaxResults
  /\ [][CommandShowsFirstMaxResults]_vars

\* C9 for a maxResults of at least 1: the gateway answers with every record
\* the tool found; search called with maxResults >= 1 returns the first
\* min(maxResults, N) of the N records in their order, and called with 0 or
\* with none it returns all N; the Search command's maxResults is within
\* 1..100, 20 by default, and it never shows more than maxResults records.
C9_ResultsTruncatedFromOne ==
  /\ []GatewayPassesAll
  /\ [](SearchReturned /\ pureIn.response.limit[1] >= 1 =>
          pureOut.value = FirstN(pureIn.response.data, pureIn.response.limit[1]))
  /\ [](pureOut.fn = "/search" /\ ~pureOut.threw
          /\ pureIn.response.limit \in {<<>>, <<0>>} =>
          pureOut.value = pureIn.response.data)
  /\ []CommandShowsAtMostMaxResults
  /\ [][CommandShowsFirstMaxResults]_vars

\* search called with maxResults 0 on a response of three records.
C9_FailingInput ==
  /\ pureOut.fn = "/search"
  /\ pureIn.response.limit = <<0>>
  /\ Len(pureIn.response.data) = 3
  /\ pureOut.value = <<1, 2, 3>>

C9_Witness ==
  /\ command = "SearchLogseq"
  /\ maxResultsPref = <<"a", "b", "c">>
  /\ Len(results) = 20
  /\ results = [k \in 1..20 |-> k]

\* A step issues a /search request.
IssuesSearch == \E r \in Issued : r.path = "/search"

\* C10: a search with an empty graph or q never reaches the Command Runner,
\* the gateway fails it at validation; the Search command issues no /search
\* while the text is blank or no graph is selected, and then has no results
\* and no search error.
C10_NothingSearchedWhenIdle ==
  /\ [](\A r \in InFlight :
          (r.path = "/search" /\ (r.q \in {UNDEFINED, <<>>} \/ r.graph \in {UNDEFINED, <<>>})) =>
             /\ r.spawns = 0
             /\ r.stage # "backend"
             /\ r.stage = "responded" => (r.kind = "ValidationError" /\ ~r.success))
  /\ [](command = "SearchLogseq" /\ SearchIsIdle =>
          /\ results = <<>>
          /\ searchError = NULL
          /\ ~effect.timer
          /\ \A r \in InFlight : r.path = "/search" => r.ctl = "aborted")
  /\ [][command = "SearchLogseq" /\ IssuesSearch => ~SearchIsIdle /\ ~SearchIsIdle']_vars

C10_Witness ==
  /\ command = "SearchLogseq"
  /\ searchText = <<" ">>
  /\ selectedGraph # <<>>
  /\ results = <<>>
  /\ \E r \in AtStage("responded") : r.path = "/search" /\ r.ctl = "aborted" /\ Len(r.data) > 0

\* C10, the gateway's case reached: a search without q answered at validation.
C10_WitnessGateway ==
  /\ command = "api"
  /\ \E r \in AtStage("responded") :
       r.path = "/search" /\ r.q = UNDEFINED /\ r.kind = "ValidationError" /\ r.spawns = 0

(***************************************************************************)
(* Properties of error handling                                             *)
(***************************************************************************)
\* An answer that reports an application-level outcome: every answer but
\* the refusal of a request that lacks a required parameter.
ApplicationLevel(r) == r.stage = "responded" /\ r.kind # "ValidationError"

\* C11: the gateway answers every application-level outcome with HTTP 200,
\* those with success=false included, and a missing required parameter with
\* 400; so get/post never throw "Server error: <status>" for an
\* application-level failure, whose error text reaches the caller.
C11_ApplicationOutcomesAre200 ==
  \A r \in AtStage("responded") :
    /\ ApplicationLevel(r) => r.status = 200
    /\ r.kind = "ValidationError" => r.status = 400
    /\ (ApplicationLevel(r) /\ ~r.success) =>
         /\ ~Transport(r).threw
         /\ WriteOutcome(r, MsgFailedToAppendToJournal).message = r.error

\* A capture without any token: the gateway's answer and what post makes of
\* it.
C11_FailingInput ==
  \E r \in AtStage("responded") :
    /\ r.path = "/append-to-journal"
    /\ NoTokenResolves(r)
    /\ r.kind = "AuthError"
    /\ r.error = <<"M", "i", "s", "s", "i", "n", "g", " ", "A", "P", "I", " ", "t", "o", "k", "e", "n">>
    /\ r.status = 401
    /\ Transport(r).threw
    /\ Transport(r).message = <<"S", "e", "r", "v", "e", "r", " ", "e", "r", "r", "o", "r", ":", " ", "4", "0", "1", " ", "U", "n", "a", "u", "t", "h", "o", "r", "i", "z", "e", "d">>

\* C11 holds of every answer but the refusal of a write without a token.
C11_ExceptMissingToken ==
  \A r \in AtStage("responded") :
    r.status # GwMissingTokenStatus =>
      /\ ApplicationLevel(r) => r.status = 200
      /\ r.kind = "ValidationError" => r.status = 400
      /\ (ApplicationLevel(r) /\ ~r.success) =>
           /\ ~Transport(r).threw
           /\ WriteOutcome(r, MsgFailedToAppendToJournal).message = r.error

\* The gateway has refused r because no token reached it.
RefusedWithoutToken(r) ==
  /\ r.stage = "responded"
  /\ r.path = "/append-to-journal"
  /\ NoTokenResolves(r)
  /\ r.kind = "AuthError"

\* Quick Capture or Quick Note learns that its capture r has failed.
CaptureSettled(r) ==
  QuickCapture_handleSubmitSettled(r) \/ CaptureToJournal_handleSubmitSettled(r)

\* C12: whenever a capture fails because no API token reached the gateway,
\* the failure toast of Quick Capture and Quick Note offers "Open Settings":
\* the error text that reaches the form contains "API token".
C12_MissingTokenGuidance ==
  [][\A r \in InFlight :
       (RefusedWithoutToken(r) /\ CaptureSettled(r)) =>
         /\ toast'.style = "failure"
         /\ Includes(WriteOutcome(r, MsgFailedToAppendToJournal).message, <<"A", "P", "I", " ", "t", "o", "k", "e", "n">>)
         /\ toast'.openSettings]_vars

\* Quick Note after a capture without any token: a failure toast without the
\* action.
C12_FailingInput ==
  /\ command = "CaptureToJournal"
  /\ prefApiToken = "" /\ cfgToken = ABSENT
  /\ toast = Toast("failure", "Capture Failed", <<"S", "e", "r", "v", "e", "r", " ", "e", "r", "r", "o", "r", ":", " ", "4", "0", "1", " ", "U", "n", "a", "u", "t", "h", "o", "r", "i", "z", "e", "d">>, FALSE)

\* A capture command learns how its capture r has ended.
AnyCaptureSettled(r) ==
  \/ QuickCapture_handleSubmitSettled(r)
  \/ CaptureToJournal_handleSubmitSettled(r)
  \/ CaptureToJournalPref_handleSubmitSettled(r)

\* The answer of /append-to-journal when the desktop application cannot be
\* reached.
UnreachableAnswered ==
  \A r \in AtStage("responded") :
    r.kind = "UnreachableError" =>
      r.status = 200 /\ ~r.success /\ Includes(r.error, <<"c", "o", "n", "n", "e", "c", "t">>)

\* The success feedback of a capture command is shown, or it pops to root.
SuccessFeedback ==
  \/ toast' # toast /\ toast'.style \in {"success", "hud"}
  \/ popped' /\ ~popped

\* Success feedback appears only at a success=true answer.
SuccessOnlyAfterSuccess ==
  SuccessFeedback =>
    \E r \in AtStage("responded") : r.success /\ AnyCaptureSettled(r)

\* C13: when the desktop application cannot be reached, /append-to-journal
\* answers HTTP 200 with success=false and an error containing "connect";
\* at every success=false answer the capture command shows a failure toast
\* with the answer's error text, shows no success feedback and does not pop
\* to root; success feedback appears only at a success=true answer.
C13_FailureShownNeverSuccess ==
  /\ []UnreachableAnswered
  /\ [][\A r \in AtStage("responded") :
          (~r.success /\ AnyCaptureSettled(r)) =>
            /\ toast'.style = "failure"
            /\ toast'.message = r.error
            /\ ~SuccessFeedback]_vars
  /\ [][SuccessOnlyAfterSuccess]_vars

\* C13 but for the text of the toast, which is the answer's error text when
\* the answer came with HTTP 200.
C13_FailureNeverSuccess ==
  /\ []UnreachableAnswered
  /\ [][\A r \in AtStage("responded") :
          (~r.success /\ AnyCaptureSettled(r)) =>
            /\ toast'.style = "failure"
            /\ r.status = 200 => toast'.message = r.error
            /\ ~SuccessFeedback]_vars
  /\ [][SuccessOnlyAfterSuccess]_vars

\* Quick Capture after a capture without any token: the toast has the status
\* line, not the answer's "Missing API token".
C13_FailingInput ==
  /\ command = "QuickCapture"
  /\ prefApiToken = "" /\ cfgToken = ABSENT
  /\ ~popped
  /\ toast.style = "failure"
  /\ toast.message = <<"S", "e", "r", "v", "e", "r", " ", "e", "r", "r", "o", "r", ":", " ", "4", "0", "1", " ", "U", "n", "a", "u", "t", "h", "o", "r", "i", "z", "e", "d">>

\* Quick Capture after the desktop application could not be reached.
C13_UnreachableShown ==
  /\ command = "QuickCapture"
  /\ ~popped /\ ~isSubmitting
  /\ toast = Toast("failure", "Capture Failed", GwMsgUnreachable, FALSE)

\* A text a person can read: there is one and it is not empty.
HumanReadable(text) == text # UNDEFINED /\ text # <<>>

\* C14: every envelope with success=false that the gateway answers carries
\* a non-empty error, and every failure that listGraphs, search, query,
\* append and appendToJournal raise carries a non-empty message, also when
\* the envelope has no error and no stderr or empty ones.
C14_FailuresCarryText ==
  pureIn.fn = "method" =>
    /\ (pureIn.gateway /\ ~pureIn.response.success) => HumanReadable(pureIn.response.error)
    /\ pureOut.threw => HumanReadable(pureOut.message)
    /\ (pureIn.response.stage = "responded" /\ ~pureIn.response.success) => pureOut.threw

C14_Witness ==
  /\ pureIn.fn = "method"
  /\ pureIn.method = "query"
  /\ ~pureIn.gateway
  /\ pureIn.response.status = 200
  /\ ~pureIn.response.success
  /\ pureIn.response.error = <<>>
  /\ pureIn.response.stderr = UNDEFINED
  /\ pureOut.threw
  /\ pureOut.message = <<"Q", "u", "e", "r", "y", " ", "f", "a", "i", "l", "e", "d">>

(***************************************************************************)
(* Properties of the configuration                                          *)
(***************************************************************************)
\* A submission of any capture command that passes its checks.
AnyAcceptedSubmission ==
  \/ AcceptedSubmission
  \/ \E content \in CaptureContents :
       /\ ~Blank(content)
       /\ TokenTruthy(prefApiToken)
       /\ CaptureToJournalPref_handleSubmit(content)

\* C15: every append request a capture command sends carries the API token
\* that is in the preferences when the form is submitted, also after the
\* user has changed the preference: never the token the service cached when
\* it was constructed.
C15_TokenOfSubmissionTime ==
  [][AnyAcceptedSubmission => IssuesToken(ExpectedBodyToken(ABSENT, prefApiToken))]_vars

\* The user has set a token after Quick Capture was opened without one, and
\* the capture submitted next is sent without a token.
C15_FailingInput ==
  /\ command = "QuickCapture"
  /\ apiToken = ""
  /\ prefApiToken = "tokA"
  /\ isSubmitting
  /\ \E r \in AtStage("sent") : r.path = "/append-to-journal" /\ r.token = ABSENT

\* C15 holds of the Quick Note that passes the preference token itself
\* (quick-capture.tsx lines 157-240).
C15_PreferencePassed ==
  [][command = "CaptureToJournalPref" /\ AnyAcceptedSubmission
       => IssuesToken(ExpectedBodyToken(ABSENT, prefApiToken))]_vars

\* A step leaves every request but one as it is: it takes at most one out
\* of the bag and puts at most one in.
TouchesOneRequest ==
  /\ BagCardinality(reqs (-) reqs') <= 1
  /\ BagCardinality(reqs' (-) reqs) <= 1

\* C16: the gateway's configured token, and the token and server URL the
\* client service holds, are set at initialization and never change: no
\* request handling and no method of the service writes them, and a step of
\* one request leaves every other request as it is.
C16_ConfigurationReadOnly ==
  [][/\ cfgToken' = cfgToken
     /\ apiToken' = apiToken
     /\ serverUrl' = serverUrl
     /\ TouchesOneRequest]_vars

\* The preference was changed, one write was answered and the next is with
\* the tool: the service still holds the token it was built with.
C16_Witness ==
  /\ command = "api"
  /\ apiToken = "tokA"
  /\ prefApiToken = ""
  /\ cfgToken = "tokS"
  /\ serverUrl = "http://localhost:8765"
  /\ pureOut.fn = "/append"
  /\ \E r \in AtStage("backend") : r.path = "/append" /\ r.token = "tokA"

(***************************************************************************)
(* Properties of the graph selection                                        *)
(***************************************************************************)
\* fetchGraphs ends well: the fetch r has its list and the saved selection.
FetchSucceeded(r) == r.stage = "getItem" /\ useGraphs_fetchGraphsLoaded(r)

\* The selection C17 describes, for a saved selection and a fetched list.
SelectionFor(saved, fetched) ==
  IF \E i \in 1..Len(fetched) : fetched[i] = saved THEN saved
  ELSE IF fetched # <<>> THEN fetched[1]
  ELSE <<>>

\* selectedGraph is one of graphs, or the empty string.
SelectionListed ==
  selectedGraph = <<>> \/ \E i \in 1..Len(graphs) : graphs[i] = selectedGraph

\* C17: after every successful fetchGraphs, selectedGraph is the saved
\* selection if the fetched list has it, else the first fetched graph, else
\* ""; so right after a successful fetch selectedGraph is one of graphs or
\* the empty string.
C17_SelectionAfterFetch ==
  [][\A r \in InFlight :
       FetchSucceeded(r) =>
         /\ selectedGraph' = SelectionFor(storage, listGraphs(r).value)
         /\ SelectionListed']_vars

\* The first half of C17 alone.
C17_SelectionOfFetchedList ==
  [][\A r \in InFlight :
       FetchSucceeded(r) =>
         selectedGraph' = SelectionFor(storage, listGraphs(r).value)]_vars

\* C17 in the Search command, which fetches once.
C17_SelectionAfterOneFetch ==
  [][\A r \in InFlight :
       (command = "SearchLogseq" /\ FetchSucceeded(r)) =>
         /\ selectedGraph' = SelectionFor(storage, listGraphs(r).value)
         /\ SelectionListed']_vars

\* Two fetches overlap: the list of the later one is shown, the selection is
\* of the earlier one's list.
C17_FailingInput ==
  /\ command = "useGraphs"
  /\ isInitialized
  /\ graphs = <<>>
  /\ selectedGraph = <<"g", "1">>

\* A step in which setSelectedGraph is called.
SetSelectedGraphCalled ==
  \/ \E newGraph \in HookGraphs : useGraphs_setSelectedGraph(newGraph)
  \/ \E graph \in DropdownValues : SearchLogseq_handleGraphChange(graph)

\* C18: the saved graph selection is written only by setSelectedGraph called
\* when initialization is complete: fetchGraphs never writes it, and a call
\* of setSelectedGraph before that leaves the saved selection as it is.
C18_SelectionSavedOnlyWhenInitialized ==
  [][/\ storage' # storage => (isInitialized /\ SetSelectedGraphCalled)
     /\ (\E r \in InFlight : useGraphs_fetchGraphsListed(r) \/ useGraphs_fetchGraphsLoaded(r))
          => storage' = storage
     /\ (~isInitialized /\ SetSelectedGraphCalled) => storage' = storage]_vars

\* setSelectedGraph("g1") was called before initialization: the selection
\* changed, the saved one did not.
C18_Witness ==
  /\ command = "useGraphs"
  /\ ~isInitialized
  /\ selectedGraph = <<"g", "1">>
  /\ storage = <<"g", "2">>

\* After initialization a call has saved its graph.
C18_WitnessSaved ==
  /\ command = "SearchLogseq"
  /\ isInitialized
  /\ storage = <<"g", "1">>

(***************************************************************************)
(* Properties of the capture template                                       *)
(***************************************************************************)
\* A template with its first placeholder replaced by a text as it is
\* written; a template without the placeholder stays as it is.
ReplacedVerbatim(template, text) ==
  LET i == IndexOf(template, Placeholder)
  IN  IF i = 0 THEN template
      ELSE SubSeq(template, 1, i - 1) \o text
             \o SubSeq(template, i + Len(Placeholder), Len(template))

\* C19: with a capture template other than "{content}", formatCaptureContent
\* returns the template with its first "{content}" replaced verbatim by the
\* tagged and prioritised text, whatever the content ('$' sequences
\* included); with an empty template or "{content}" it returns that text.
C19_TemplateVerbatim ==
  pureIn.fn = "formatCaptureContent" =>
    LET text == formatCaptureContent(pureIn.content, pureIn.tags, pureIn.priority, UNDEFINED)
    IN  pureOut.value =
          (IF pureIn.template \in {UNDEFINED, <<>>, Placeholder}
             THEN text
             ELSE ReplacedVerbatim(pureIn.template, text))

\* C19 for a text without a '$'.
C19_TemplateWithoutDollar ==
  (pureIn.fn = "formatCaptureContent" /\ ~Includes(pureIn.content, <<"$">>)) =>
    LET text == formatCaptureContent(pureIn.content, pureIn.tags, pureIn.priority, UNDEFINED)
    IN  pureOut.value =
          (IF pureIn.template \in {UNDEFINED, <<>>, Placeholder}
             THEN text
             ELSE ReplacedVerbatim(pureIn.template, text))

\* A content that ends in "$&", under the template "- {content}".
C19_FailingInput ==
  /\ pureIn.fn = "formatCaptureContent"
  /\ pureIn.content = <<" ", "b", "\n", "$", "&">>
  /\ pureIn.tags = UNDEFINED_LIST
  /\ pureIn.priority = UNDEFINED
  /\ pureIn.template = <<"-", " ", "{", "c", "o", "n", "t", "e", "n", "t", "}">>
  /\ pureOut.value = <<"-", " ", " ", "b", "\n", "{", "c", "o", "n", "t", "e", "n", "t", "}">>

(***************************************************************************)
(* Properties of the search effect                                          *)
(***************************************************************************)
\* The search r is of the text and the graph now current.
Current(r) == r.q = searchText /\ r.graph = selectedGraph

\* The response to the search r reaches the callback of the effect.
ResponseArrives(r) == r.path = "/search" /\ SearchLogseq_searchSettled(r)

\* A response is applied only if its search is current and not aborted; the
\* response for an aborted search changes neither results nor searchError.
AppliedOnlyIfCurrent ==
  \A r \in InFlight :
    ResponseArrives(r) =>
      /\ (results' # results \/ searchError' # searchError) =>
           (r.ctl = "live" /\ Current(r))
      /\ r.ctl = "aborted" => (results' = results /\ searchError' = searchError)
      /\ ~Current(r) => r.ctl = "aborted"

\* Results appear only with the response to a search that is current.
ResultsOnlyFromCurrentSearch ==
  (results' # results /\ results' # <<>>) =>
    \E r \in InFlight : ResponseArrives(r) /\ r.ctl = "live" /\ Current(r) /\ r.success

\* C20: under every interleaving of text changes, graph changes and search
\* responses, a response is applied to the results only if its text and
\* graph are still the current ones, the response for a superseded search
\* changes neither results nor searchError, and a change of the selected
\* graph leaves the results empty until a search for the new graph completes.
C20_OnlyCurrentResponsesApplied ==
  /\ [][command = "SearchLogseq" => AppliedOnlyIfCurrent]_vars
  /\ [][command = "SearchLogseq" => ResultsOnlyFromCurrentSearch]_vars
  /\ [][(command = "SearchLogseq" /\ selectedGraph' # selectedGraph) => results' = <<>>]_vars

\* C20 with the results emptied when handleGraphChange has run to its end:
\* while it awaits setSelectedGraph the results stay as they were.
C20_CurrentResponsesEmptiedAtEnd ==
  /\ [][command = "SearchLogseq" => AppliedOnlyIfCurrent]_vars
  /\ [][command = "SearchLogseq" => ResultsOnlyFromCurrentSearch]_vars
  /\ [][SearchLogseq_handleGraphChanged => (results' = <<>> /\ searchText' = <<>>)]_vars

\* The graph was changed to g2 and setSelectedGraph is still saving it: the
\* results of the search in g1 are on display.
C20_FailingInput ==
  /\ command = "SearchLogseq"
  /\ selectedGraph = <<"g", "2">>
  /\ pendingChanges = 1
  /\ searchText = <<"f">>
  /\ results # <<>>

\* The response to a superseded search has arrived and was dropped: the
\* search was of "f", the text is blank and nothing is shown.
C20_Witness ==
  /\ command = "SearchLogseq"
  /\ searchText = <<" ">>
  /\ results = <<>> /\ searchError = NULL
  /\ isSearching
  /\ ~effect.timer
  /\ reqs = EmptyBag

(***************************************************************************)
(* Properties of the loading indicator                                      *)
(***************************************************************************)
\* The searches in flight whose effect has not been superseded.
LiveSearches == {r \in InFlight : r.path = "/search" /\ r.ctl = "live"}

\* C21: in the Search command isSearching is true only while a search that
\* has not been superseded is in flight: once every started search has
\* completed or been superseded, isSearching is false again.
C21_SearchingOnlyWhileLive ==
  (command = "SearchLogseq" /\ isSearching) => LiveSearches # {}

\* isSearching is set when a search starts and is reset only at the end of
\* a search that has not been superseded.
C21_ResetOnlyByLiveSearch ==
  /\ [][(command = "SearchLogseq" /\ ~isSearching /\ isSearching')
          => SearchLogseq_search]_vars
  /\ [][(command = "SearchLogseq" /\ isSearching /\ ~isSearching')
          => \E r \in LiveSearches :
               SearchLogseq_searchSettled(r) \/ SearchLogseq_searchFailed(r)]_vars

\* A search was started and the text was cleared before it answered: the
\* answer has come and gone, no search is pending, isSearching is still true.
C21_FailingInput ==
  /\ command = "SearchLogseq"
  /\ searchText = <<>>
  /\ isSearching
  /\ ~effect.timer
  /\ reqs = EmptyBag
  /\ pendingChanges = 0

(***************************************************************************)
(* Properties of the submissions of the capture forms                       *)
(***************************************************************************)
\* A submission of a capture form that is rejected for its blank content.
BlankSubmission ==
  \/ \E values \in QuickCaptureValues :
       Blank(values.content) /\ QuickCapture_handleSubmit(values)
  \/ \E content \in CaptureContents :
       Blank(content) /\ CaptureToJournal_handleSubmit(content)

\* A submission of Quick Capture or Quick Note comes to its end.
SubmissionFinishes == \E r \in InFlight : CaptureSettled(r)

\* The number of requests grows in a step.
IssuesRequest == BagCardinality(reqs') > BagCardinality(reqs)

\* C22: a capture form has at most one append request in flight and each
\* accepted submission makes exactly one POST: a submit that arrives while
\* isSubmitting is true issues no request, and isSubmitting is false after
\* every submission finishes: succeeded, failed or rejected for blank content.
C22_OneAppendInFlight ==
  /\ [](command \in {"QuickCapture", "CaptureToJournal"} => BagCardinality(reqs) <= 1)
  /\ [][AcceptedSubmission => (~isSubmitting /\ IssuesJournalPost)]_vars
  /\ [][(command \in {"QuickCapture", "CaptureToJournal"} /\ isSubmitting)
          => ~IssuesRequest]_vars
  /\ [][(SubmissionFinishes \/ BlankSubmission) => ~isSubmitting']_vars

\* Each accepted submission makes exactly one POST and sets isSubmitting, no
\* other step of a form issues a request, and the end of a submission takes
\* its request away and resets isSubmitting.
C22_OnePostPerSubmission ==
  /\ [][AcceptedSubmission => (IssuesJournalPost /\ isSubmitting')]_vars
  /\ [][(command \in {"QuickCapture", "CaptureToJournal"} /\ IssuesRequest)
          => AcceptedSubmission]_vars
  /\ [][SubmissionFinishes =>
          (~isSubmitting' /\ BagCardinality(reqs') = BagCardinality(reqs) - 1)]_vars

\* Quick Capture was submitted twice before an answer came: two appends are
\* in flight.
C22_FailingInput ==
  /\ command = "QuickCapture"
  /\ isSubmitting
  /\ BagCardinality(reqs) = 2
  /\ \A r \in InFlight : r.path = "/append-to-journal" /\ r.stage = "sent"

\* The first of two submissions has finished and the second has not:
\* isSubmitting is false with an append in flight.
C22_FailingInputIdle ==
  /\ command = "CaptureToJournal"
  /\ ~isSubmitting /\ ~popped
  /\ \E r \in AtStage("sent") : r.path = "/append-to-journal"

====
